---- MODULE Spec2Model ----
(***************************************************************************)
(* The example applications of trame-3-examples as one state machine.      *)
(* One behaviour is one session of one example: the process starts in an   *)
(* environment (data source reachable or not, API key set or not), the     *)
(* application object is constructed, and then the client delivers state   *)
(* changes and events one at a time, each processed to completion.         *)
(*                                                                         *)
(* The State Store and its change dispatch belong to the host framework;   *)
(* they are modelled from the specification's contract (sections 2-5).     *)
(* Handler bodies, registrations, constructors and event callbacks are     *)
(* translated from the example sources.                                    *)
(***************************************************************************)
EXTENDS Integers, Sequences, FiniteSets, TLC

VARIABLES
    app,      \* the example this process runs
    env,      \* the environment of the process (data source, API key)
    phase,    \* "start" | "built" | "running" | "crashed"
    state,    \* the State Store: key |-> value
    self,     \* attributes of the application object (pipeline, caches)
    shown,    \* what the client displays: widget |-> artifact last pushed
    log,      \* kinds of message printed or reported so far
    last,     \* the operation processed last, with the handler calls it made
    process,  \* what the libraries keep for the whole process (pyplot, numpy)
    peer      \* the other session of the process, when there is one

vars == <<app, env, phase, state, self, shown, log, last, process, peer>>

(***************************************************************************)
(* Bounds of the model.                                                    *)
(***************************************************************************)
NRows == 3
MaxUnseededDraws == 1

(***************************************************************************)
(* Python values that reach a handler from the client.  A value is a pair  *)
(* <<type, n>>: an int n, a float n/2, a string spelling the int n, a      *)
(* string spelling no number, or None.                                     *)
(***************************************************************************)
PyInt(n) == <<"int", n>>
PyFloat(halves) == <<"float", halves>>
PyNumStr(n) == <<"numstr", n>>
PyBadStr == <<"badstr", 0>>
PyNone == <<"none", 0>>

\* int(v) raises for None and for a string that spells no number.
CanInt(v) == v[1] \in {"int", "float", "numstr"}
\* int(v): truncation of a float, parse of a numeric string.
IntOf(v) == IF v[1] = "float" THEN v[2] \div 2 ELSE v[2]
\* float(v) raises for None and for a string that spells no number.
CanFloat(v) == v[1] \in {"int", "float", "numstr"}
\* float(v) in halves.
FloatOf(v) == IF v[1] = "float" THEN v[2] ELSE 2 * v[2]
\* A VTK setter that takes an int accepts a Python int only.
IsPyInt(v) == v[1] = "int"

Put(f, k, v) == [x \in DOMAIN f \cup {k} |-> IF x = k THEN v ELSE f[x]]
Has(f, k) == k \in DOMAIN f
Empty == [x \in {} |-> 0]
Nothing == [kind |-> "nothing", of |-> 0]

(***************************************************************************)
(* The machine a handler runs on: the store, the application object, the   *)
(* client's display, the log, the keys changed and not yet dispatched, the *)
(* keys given a new value so far in the current operation, the calls made  *)
(* so far in it, whether the running callable has raised, the number of    *)
(* the dispatch round in progress (0 before the first), and the state the  *)
(* libraries keep for the whole process.                                   *)
(***************************************************************************)
Machine(st, sf, sh, lg) ==
    [state |-> st, self |-> sf, shown |-> sh, log |-> lg,
     dirty |-> {}, written |-> {}, calls |-> <<>>, raised |-> FALSE, round |-> 0,
     process |-> process]

\* self.state.k = v: the value is committed; the key is marked changed when
\* the value differs from the one stored.
SetState(m, k, v) ==
    [m EXCEPT !.state = Put(@, k, v),
              !.dirty = IF Has(m.state, k) /\ m.state[k] = v THEN @ ELSE @ \cup {k},
              !.written = IF Has(m.state, k) /\ m.state[k] = v THEN @ ELSE @ \cup {k}]

SetSelf(m, k, v) == [m EXCEPT !.self = Put(@, k, v)]
\* widget.update(artifact): the client replaces what the widget displays.
Update(m, w, artifact) == [m EXCEPT !.shown = Put(@, w, artifact)]
PrintMsg(m, msg) == [m EXCEPT !.log = @ \cup {msg}]
Raise(m) == [m EXCEPT !.raised = TRUE]

\* A setter of an object of the rendering pipeline: the pipeline is mutated in
\* place on the server; the client sees nothing until a view is updated.
SetPipe(m, param, v) ==
    [m EXCEPT !.self = Put(@, "pipeline",
                           Put(IF Has(@, "pipeline") THEN @["pipeline"] ELSE Empty, param, v))]
\* What a view pushes on update: the pipeline as it is now.
Render(m) == [kind |-> "render", of |-> m.self["pipeline"]]

(***************************************************************************)
(* 01_SimpleCone/ClientView.py: ClientViewApp.                            *)
(***************************************************************************)
DEFAULT_RESOLUTION == 6

\* ClientViewApp._on_resolution_change(resolution)
ClientView_on_resolution_change(m, resolution) ==
    IF ~CanInt(resolution) THEN Raise(m)
    ELSE LET m1 == SetPipe(m, "cone_resolution", IntOf(resolution))
         IN  IF Has(m1.self, "mesh_update") THEN Update(m1, "cone", Render(m1)) ELSE m1

\* ClientViewApp.reset_resolution()
ClientView_reset_resolution(m) == SetState(m, "resolution", PyInt(DEFAULT_RESOLUTION))

\* ClientViewApp.__init__: vtkConeSource(), _initialize_state, _build_ui, then
\* the explicit first call of the handler.
ClientView_init(m) ==
    LET m1 == SetPipe(m, "cone_resolution", 6)
        m2 == SetState(SetState(m1, "trame__title", "VTK Server-Side Cone"),
                       "resolution", PyInt(DEFAULT_RESOLUTION))
        m3 == Update(SetSelf(m2, "mesh_update", TRUE), "cone", Nothing)
    IN  ClientView_on_resolution_change(m3, m3.state["resolution"])

(***************************************************************************)
(* 01_SimpleCone/RemoteRendering.py: RemoteRenderingApp.                   *)
(***************************************************************************)
\* RemoteRenderingApp._on_resolution_change(resolution=6)
RemoteRendering_on_resolution_change(m, resolution) ==
    IF ~IsPyInt(resolution) THEN Raise(m)          \* SetResolution takes an int
    ELSE Update(SetPipe(m, "cone_resolution", resolution[2]), "view", Render(SetPipe(m, "cone_resolution", resolution[2])))

\* RemoteRenderingApp.__init__
RemoteRendering_init(m) ==
    LET m1 == SetPipe(m, "cone_resolution", 6)
        m2 == SetState(SetState(m1, "trame__title", "VTK Remote Rendering"),
                       "resolution", PyInt(6))
        m3 == Update(m2, "view", Nothing)
    IN  RemoteRendering_on_resolution_change(m3, PyInt(6))

(***************************************************************************)
(* 01_uber-nyc-pickups.py: load_data and UberPickupsApp.                   *)
(***************************************************************************)
DEFAULT_PICKUP_HOUR == 10
MaxHour == 23

\* The rows the remote CSV can hold: an id, and the hour and minute of the
\* row's date/time.
RowHour(i) == (10 + 13 * ((i - 1) \div 2)) % 24
RowMinute(i) == (7 * i) % 60
RowPool == {[id |-> i, hour |-> RowHour(i), minute |-> RowMinute(i)] : i \in 1..NRows}

\* load_data that answers a failed read with rows it still holds.
C3_LoadKeepsRows(m, e) == SetSelf(m, "_data_cache", RowPool)

\* load_data(nrows): the parsed rows, or the empty frame when read_csv or
\* to_datetime raises.
load_data(m, e) ==
    IF e.source = "ok"
    THEN SetSelf(SetSelf(m, "_data_cache", e.rows),
                 "_data_columns", {"date/time", "lat", "lon", "base"})
    ELSE SetSelf(SetSelf(PrintMsg(m, "Error loading data"), "_data_cache", {}),
                 "_data_columns", {"lat", "lon", "date/time"})

\* map_definitions, in list order: id, title key, widget attribute.
map_definitions == <<
    [id |-> "nyc", title_key |-> "nycTitle", widget_name |-> "_deck_nyc"],
    [id |-> "jfk", title_key |-> "jfkTitle", widget_name |-> "_deck_jfk"],
    [id |-> "lga", title_key |-> "lgaTitle", widget_name |-> "_deck_lga"],
    [id |-> "nwk", title_key |-> "nwkTitle", widget_name |-> "_deck_nwk"] >>

\* The pdk.Deck built for one map: its view centre, the rows of its hexagon
\* layer and its API key.
DeckConfig(m, map_def, rows) ==
    [kind |-> "deck",
     of |-> [center |-> IF map_def.id = "nyc" THEN m.self["nyc_center"] ELSE map_def.id,
             data |-> rows,
             api_keys |-> m.state["mapboxApiKey"]]]

\* np.histogram(minutes, bins=60, range=(0, 59)): the bin of minute x.
HistBin(x) == IF x >= 59 THEN 59 ELSE (x * 60) \div 59
Histogram(rows) == [b \in 0..59 |-> Cardinality({r \in rows : HistBin(r.minute) = b})]

RECURSIVE UpdateMaps(_, _, _, _)
UpdateMaps(m, i, rows, hour) ==
    IF i > Len(map_definitions) THEN m
    ELSE LET map_def == map_definitions[i]
             m1 == IF Has(m.self, map_def.widget_name)
                   THEN SetState(
                            Update(m, map_def.widget_name, DeckConfig(m, map_def, rows)),
                            map_def.title_key,
                            IF map_def.id = "nyc" THEN <<"static_title", hour>>
                                                  ELSE <<"static_title", -1>>)
                   ELSE m
         IN  UpdateMaps(m1, i + 1, rows, hour)

\* update_data_and_plots filtering with <= in place of ==.
C5_FiltersUpToHour(m, pickupHourArg) ==
    LET m1 == SetState(m, "loading", TRUE)
        v == IF pickupHourArg = PyNone THEN m1.state["pickupHour"] ELSE pickupHourArg
    IN  IF ~CanInt(v) THEN Raise(m1)
        ELSE
        LET pickupHour == IntOf(v)
            m2 == SetState(m1, "chartTitle", <<"Pickups per minute for", pickupHour>>)
            filtered_data_for_hour == {r \in m2.self["_data_cache"] : r.hour <= pickupHour}
            m3 == UpdateMaps(m2, 1, filtered_data_for_hour, pickupHour)
        IN  SetState(m3, "loading", FALSE)

\* update_data_and_plots emptying the maps before it converts the hour.
C8_ClearsMapsFirst(m, pickupHourArg) ==
    LET m1 == UpdateMaps(SetState(m, "loading", TRUE), 1, {}, -1)
        v == IF pickupHourArg = PyNone THEN m1.state["pickupHour"] ELSE pickupHourArg
    IN  IF ~CanInt(v) THEN Raise(m1)
        ELSE SetState(UpdateMaps(m1, 1, {r \in m1.self["_data_cache"] : r.hour = IntOf(v)},
                                 IntOf(v)),
                      "loading", FALSE)

\* update_data_and_plots lowering the loading flag again when it fails.
C9_LowersLoadingOnFailure(m, pickupHourArg) ==
    LET m1 == SetState(m, "loading", TRUE)
        v == IF pickupHourArg = PyNone THEN m1.state["pickupHour"] ELSE pickupHourArg
    IN  IF ~CanInt(v) THEN Raise(SetState(m1, "loading", FALSE))
        ELSE SetState(UpdateMaps(m1, 1, {r \in m1.self["_data_cache"] : r.hour = IntOf(v)},
                                 IntOf(v)),
                      "loading", FALSE)

\* UberPickupsApp.update_data_and_plots(pickupHour=None)
update_data_and_plots(m, pickupHourArg) ==
    LET m1 == SetState(m, "loading", TRUE)
        v == IF pickupHourArg = PyNone THEN m1.state["pickupHour"] ELSE pickupHourArg
    IN  IF ~CanInt(v) THEN Raise(m1)
        ELSE
        LET pickupHour == IntOf(v)
            m2 == SetState(m1, "chartTitle", <<"Pickups per minute for", pickupHour>>)
            filtered_data_for_hour ==
                IF m2.self["_data_cache"] = {} THEN {}
                ELSE {r \in m2.self["_data_cache"] : r.hour = pickupHour}
            m3 == UpdateMaps(m2, 1, filtered_data_for_hour, pickupHour)
            m4 == IF Has(m3.self, "_hour_histogram")
                  THEN Update(m3, "_hour_histogram",
                              [kind |-> "chart",
                               of |-> [title |-> m3.state["chartTitle"],
                                       pickups |-> Histogram(filtered_data_for_hour)]])
                  ELSE m3
        IN  SetState(m4, "loading", FALSE)

\* _build_ui placing no alert whatever the API key.
C15_BuildsNoAlert(m) ==
    [m EXCEPT
       !.self = [x \in DOMAIN @ \cup {"_deck_nyc", "_deck_jfk", "_deck_lga",
                                      "_deck_nwk", "_hour_histogram"} |->
                   IF x \in DOMAIN @ THEN @[x] ELSE TRUE],
       !.shown = [x \in {"_deck_nyc", "_deck_jfk", "_deck_lga", "_deck_nwk",
                         "_hour_histogram", "VAlert"} |-> Nothing]]

\* UberPickupsApp._build_ui: the four deck widgets, the histogram figure and,
\* without an API key, the warning alert.
Uber_build_ui(m) ==
    LET m1 == [m EXCEPT
                 !.self = [x \in DOMAIN @ \cup {"_deck_nyc", "_deck_jfk", "_deck_lga",
                                                "_deck_nwk", "_hour_histogram"} |->
                             IF x \in DOMAIN @ THEN @[x] ELSE TRUE],
                 !.shown = [x \in {"_deck_nyc", "_deck_jfk", "_deck_lga", "_deck_nwk",
                                   "_hour_histogram", "VAlert"} |-> Nothing]]
    IN  IF m1.state["mapboxApiKey"] = "None"
        THEN Update(m1, "VAlert", [kind |-> "alert", of |-> 0])
        ELSE m1

\* UberPickupsApp.__init__
Uber_init(m, e) ==
    LET m1 == SetState(SetState(m, "pickupHour", PyInt(DEFAULT_PICKUP_HOUR)), "loading", TRUE)
        m2 == load_data(m1, e)
        m3 == IF m2.self["_data_cache"] = {} THEN PrintMsg(m2, "Warning: Data cache is empty") ELSE m2
        m4 == SetSelf(m3, "nyc_center",
                      IF m3.self["_data_cache"] # {} THEN "data_mean" ELSE "nyc_fallback")
        m5 == SetState(SetState(SetState(SetState(m4,
                  "nycTitle", <<"static_title", -1>>), "jfkTitle", <<"static_title", -1>>),
                  "lgaTitle", <<"static_title", -1>>), "nwkTitle", <<"static_title", -1>>)
        m6 == SetState(SetState(m5, "chartTitle", <<"", -1>>), "mapboxApiKey", e.apiKey)
        m7 == IF m6.state["mapboxApiKey"] = "None"
              THEN PrintMsg(m6, "WARNING: MAPBOX_API_KEY") ELSE m6
        m8 == Uber_build_ui(m7)
        m9 == update_data_and_plots(m8, PyNone)
    IN  IF m9.raised THEN m9 ELSE SetState(m9, "loading", FALSE)

(***************************************************************************)
(* Calls a callable makes on other methods of the application object.      *)
(***************************************************************************)
Direct(m, name) ==
    [m EXCEPT !.calls = Append(@, [h |-> name, by |-> "direct", args |-> Empty, raised |-> FALSE])]

RecursionDepth == 3
NoneName == "None"

(***************************************************************************)
(* charts/altair-vega/00_altair-charts-selector.py: AltairChartsApp.       *)
(***************************************************************************)
\* The values of chart_options.
Altair_chart_options == {"ScatterMatrix", "USIncomeByState", "StackedDensityEstimates", "StreamGraph"}
\* Every chart method ends with self.altair_figure.update(chart).
Altair_chart_method(m, name) ==
    Update(Direct(m, name), "altair_figure", [kind |-> "vega", of |-> name])

\* AltairChartsApp._initialize_state
Altair_initialize_state(m) ==
    SetState(SetState(SetState(m, "trame__title", "Altair Charts Selector"),
                      "chart_options", Altair_chart_options), "active_chart", "ScatterMatrix")

\* AltairChartsApp._build_ui: a new layout with a new, empty vega figure.
Altair_build_ui(m) == Update(SetSelf(m, "altair_figure", TRUE), "altair_figure", Nothing)

\* The callable attributes of an AltairChartsApp that getattr can return,
\* besides the chart methods.
Altair_other_methods == {"update_chart", "_build_ui", "_initialize_state"}
\* Attributes that are not callable.
Altair_attributes == {"altair_figure"}

\* AltairChartsApp.update_chart(active_chart=None)
RECURSIVE Altair_update_chart(_, _, _)
Altair_update_chart(m, active_chart, depth) ==
    LET current_chart_selection ==
            IF active_chart # NoneName THEN active_chart ELSE m.state["active_chart"]
    IN  IF current_chart_selection = NoneName THEN Raise(m)    \* getattr(self, None, None)
        ELSE IF current_chart_selection \in Altair_chart_options
        THEN Altair_chart_method(m, current_chart_selection)
        ELSE IF current_chart_selection = "_initialize_state"
        THEN Altair_initialize_state(Direct(m, "_initialize_state"))
        ELSE IF current_chart_selection = "_build_ui"
        THEN Altair_build_ui(Direct(m, "_build_ui"))
        ELSE IF current_chart_selection = "update_chart"
        THEN IF depth = 0 THEN Raise(m)                        \* RecursionError
             ELSE Altair_update_chart(Direct(m, "update_chart"), NoneName, depth - 1)
        ELSE LET m1 == PrintMsg(m, "Error: Chart method not found")
             IN  IF Has(m1.self, "altair_figure")
                 THEN Update(m1, "altair_figure", [kind |-> "vega", of |-> "{}"])
                 ELSE m1

\* AltairChartsApp.__init__
Altair_init(m) ==
    Altair_update_chart(Altair_build_ui(Altair_initialize_state(m)), NoneName, RecursionDepth)

(***************************************************************************)
(* charts/matplotlib/00_matplotlib-charts.py: MatplotlibApp.               *)
(***************************************************************************)
Matplotlib_figures == {"FirstDemo", "Subplots", "MultiLines", "DotsAndPoints", "MovingWindowAverage"}
NoSize == [width |-> 0, height |-> 0, pixelRatio |-> 0, dpi |-> 0]

\* MatplotlibApp.figure_size(): the keyword arguments of the new figure.
Matplotlib_figure_size(m) ==
    LET fs == m.state["figure_size"]
    IN  IF fs = NoSize THEN <<0, 0, 0>>
        ELSE LET pixelRatio == IF fs.pixelRatio > 1 THEN 2 ELSE fs.pixelRatio
             IN  <<fs.width \div (pixelRatio * fs.dpi), fs.height \div (pixelRatio * fs.dpi), fs.dpi>>

\* The state of numpy's global generator: the plotting method that called
\* np.random.seed(0) last and drew its numbers ("import" before any did),
\* and the number of np.random.rand(20) calls since.
RngAtImport == [after |-> "import", draws |-> 0]
\* The generator right after np.random.seed(0); no random numbers at all.
RngSeeded == [after |-> "seed", draws |-> 0]
RngUnused == [after |-> "none", draws |-> 0]
\* What the process holds when it starts: the generator and the number of
\* figures pyplot keeps open.
ProcessAtImport == [rng |-> RngAtImport, figures |-> 0]
\* The plotting methods that call np.random.seed(0) before they draw.
Matplotlib_seeding == {"FirstDemo", "MovingWindowAverage", "Subplots"}

\* A plotting method: a new figure of the current size; its random data are
\* those the generator gives from the state it is in.
Matplotlib_plot_method(m, name) ==
    [kind |-> "figure",
     of |-> <<name, Matplotlib_figure_size(m),
              IF name \in Matplotlib_seeding THEN RngSeeded
              ELSE IF name = "DotsAndPoints" THEN m.process.rng
              ELSE RngUnused>>]

\* What a plotting method does to the process: plt.close("all") closes every
\* figure pyplot holds, the new figure is the only one open, and the
\* generator is reseeded or advanced.
Matplotlib_plot_effects(m, name) ==
    [m EXCEPT !.process =
        [rng |-> IF name \in Matplotlib_seeding THEN [after |-> name, draws |-> 0]
                 ELSE IF name = "DotsAndPoints" THEN [@.rng EXCEPT !.draws = @ + 1]
                 ELSE @.rng,
         figures |-> 1]]

\* MatplotlibApp._initialize_state
Matplotlib_initialize_state(m) ==
    SetState(SetState(SetState(m, "trame__title", "Matplotlib Viewer"),
                      "figures", Matplotlib_figures), "active_figure", "FirstDemo")

\* MatplotlibApp._build_ui
Matplotlib_build_ui(m) == Update(SetSelf(m, "update_figure", TRUE), "html_figure", Nothing)

\* MatplotlibApp._update_chart(active_figure)
Matplotlib_update_chart(m, active_figure) ==
    IF active_figure \in {NoneName, ""} THEN m
    ELSE IF active_figure \in Matplotlib_figures
    THEN LET m1 == Direct(m, active_figure)
         IN  IF Has(m1.self, "update_figure")
             THEN Update(Matplotlib_plot_effects(m1, active_figure),
                         "html_figure", Matplotlib_plot_method(m1, active_figure))
             ELSE Matplotlib_plot_effects(m1, active_figure)
    ELSE IF active_figure = "figure_size"
    THEN LET m1 == Direct(m, "figure_size")
         IN  Update(m1, "html_figure", [kind |-> "dict", of |-> <<"", Matplotlib_figure_size(m1)>>])
    ELSE IF active_figure = "_initialize_state"
    THEN Update(Matplotlib_initialize_state(Direct(m, "_initialize_state")),
                "html_figure", [kind |-> "None", of |-> <<"", <<0, 0, 0>> >>])
    ELSE IF active_figure = "_build_ui"
    THEN Update(Matplotlib_build_ui(Direct(m, "_build_ui")),
                "html_figure", [kind |-> "None", of |-> <<"", <<0, 0, 0>> >>])
    ELSE IF active_figure = "_update_chart"
    THEN Raise(Direct(m, "_update_chart"))       \* missing argument: TypeError
    ELSE PrintMsg(m, "Error: Plotting method not found")

\* MatplotlibApp.__init__
Matplotlib_init(m) ==
    LET m1 == Matplotlib_build_ui(Matplotlib_initialize_state(SetState(m, "figure_size", NoSize)))
    IN  IF m1.state["active_figure"] \notin {NoneName, ""}
        THEN Matplotlib_update_chart(m1, m1.state["active_figure"])
        ELSE m1

(***************************************************************************)
(* charts/plotly/00_plotly-charts-selector.py: PLOTS and PlotlyViewer.     *)
(***************************************************************************)
\* PLOTS: name |-> the prebuilt figure object.
PLOTS == [Contour |-> "CONTOUR_PLOT", Scatter3D |-> "SCATTER_3D",
          ScatterMatrix |-> "SCATTER_MATRIX", BarChart |-> "BAR_CHART"]

\* update_plot_figure pushing the first plot whatever the name.
C6_PushesFirstPlot(m, active_plot_name) ==
    Update(m, "plotly_display", [kind |-> "plotly", of |-> PLOTS["Contour"]])

\* update_plot_figure adding the plot to what the display holds.
C13_AddsToDisplayed(m, active_plot_name) ==
    IF active_plot_name \in DOMAIN PLOTS
    THEN Update(m, "plotly_display",
                [kind |-> "plotly",
                 of |-> <<m.shown["plotly_display"].of, PLOTS[active_plot_name]>>])
    ELSE m

\* PlotlyViewer.update_plot_figure(active_plot_name)
update_plot_figure(m, active_plot_name) ==
    IF active_plot_name \in DOMAIN PLOTS
    THEN Update(m, "plotly_display", [kind |-> "plotly", of |-> PLOTS[active_plot_name]])
    ELSE m

\* PlotlyViewer.__init__: _build_ui only; the select's v_model seeds the key.
Plotly_init(m) ==
    Update(SetState(SetState(m, "active_plot_name", "Contour"), "plots", DOMAIN PLOTS),
           "plotly_display", Nothing)

(***************************************************************************)
(* 02_ContourGeometry/RemoteLocalViewRendering.py: ContourApp.  Its view   *)
(* is a VtkRemoteLocalView: the client displays either the geometry        *)
(* rendered locally ("view.local") or the image rendered remotely          *)
(* ("view.remote"), as state.view_mode says.                               *)
(***************************************************************************)
\* The scalar range of head.vti, in halves, and the value midway.
ScalarRange == <<0, 400>>
MidRange == (ScalarRange[1] + ScalarRange[2]) \div 2

\* vtkContourFilter.SetValue(i, value) takes a number.
IsNumber(v) == v[1] \in {"int", "float"}

\* view.update_image: the image of the remote rendering is pushed.
RemoteLocal_view_update_image(m) == Update(m, "view.remote", Render(m))
\* view.update: the geometry and the image are pushed.
RemoteLocal_view_update(m) == Update(Update(m, "view.local", Render(m)), "view.remote", Render(m))

\* ContourApp.update_contour(**kwargs)
RemoteLocal_update_contour(m) ==
    LET v == m.state["contour_value"]
    IN  IF ~IsNumber(v) THEN Raise(m)
        ELSE RemoteLocal_view_update_image(SetPipe(m, "contour_value", FloatOf(v)))

\* ContourApp.__init__: _initialize_vtk, _initialize_state, _build_ui and the
\* first call of update_contour.
RemoteLocal_init(m) ==
    LET m1 == SetPipe(m, "contour_value", 0)
        m2 == SetState(SetState(SetState(SetState(m1,
                  "trame__title", "VTK Remote/Local Contour"),
                  "contour_value", PyFloat(MidRange)), "view_mode", "local"), "theme_mode", "light")
        m3 == Update(Update(m2, "view.local", Nothing), "view.remote", Nothing)
    IN  RemoteLocal_update_contour(m3)

(***************************************************************************)
(* 02_ContourGeometry/RemoteViewRendering.py: create_vtk_pipeline and      *)
(* ContourRemoteApp.                                                       *)
(***************************************************************************)
\* create_vtk_pipeline(): FileNotFoundError when head.vti does not exist.
create_vtk_pipeline(m, e) ==
    IF e.source # "ok" THEN Raise(m)
    ELSE SetSelf(SetPipe(SetPipe(m, "contour_value", MidRange), "camera", "reset"),
                 "_initial_contour_value", PyFloat(MidRange))

\* ContourRemoteApp._update_contour_and_render(new_value=None)
ContourRemote_update_contour_and_render(m, new_value) ==
    LET m1 == IF new_value = PyNone THEN m ELSE SetState(m, "contour_value", new_value)
        v == IF new_value = PyNone THEN m.state["contour_value"] ELSE new_value
    IN  IF ~CanFloat(v) THEN Raise(m1)
        ELSE LET m2 == SetPipe(m1, "contour_value", FloatOf(v))
             IN  IF Has(m2.self, "view_update") THEN Update(m2, "view", Render(m2)) ELSE m2

\* ContourRemoteApp._on_contour_value_change_interactive(contour_value)
ContourRemote_on_contour_value_change_interactive(m, contour_value) ==
    IF m.state["interactive_update"]
    THEN ContourRemote_update_contour_and_render(Direct(m, "_update_contour_and_render"), contour_value)
    ELSE m

\* ContourRemoteApp.commit_changes(value)
ContourRemote_commit_changes(m, value) ==
    IF ~m.state["interactive_update"]
    THEN ContourRemote_update_contour_and_render(Direct(m, "_update_contour_and_render"), value)
    ELSE m

\* ContourRemoteApp.reset_contour_and_camera()
ContourRemote_reset_contour_and_camera(m) ==
    LET m1 == SetState(m, "contour_value", m.self["_initial_contour_value"])
        m2 == ContourRemote_update_contour_and_render(Direct(m1, "_update_contour_and_render"), PyNone)
    IN  IF m2.raised THEN m2
        ELSE Update(SetPipe(m2, "camera", "reset"), "view", Render(SetPipe(m2, "camera", "reset")))

\* ContourRemoteApp.__init__
ContourRemote_init(m, e) ==
    LET m1 == create_vtk_pipeline(m, e)
    IN  IF m1.raised THEN m1
        ELSE LET m2 == SetState(SetState(SetState(m1,
                           "trame__title", "VTK Head Contour (Remote)"),
                           "contour_value", m1.self["_initial_contour_value"]),
                           "interactive_update", TRUE)
                 m3 == Update(SetSelf(m2, "view_update", TRUE), "view", Nothing)
             IN  ContourRemote_update_contour_and_render(m3, PyNone)

\* The callbacks _build_ui adds to on_server_ready: view.update and
\* view.reset_camera.
ContourRemote_on_server_ready(m) ==
    Update(SetPipe(m, "camera", "reset"), "view", Render(SetPipe(m, "camera", "reset")))

(***************************************************************************)
(* 02_ContourGeometry/LocalViewRemoteViewRendering.py: ContourViewApp.     *)
(***************************************************************************)
\* default_contour_value = 50.0, in halves.
ContourView_default == 100

\* ctrl.remote_view_update / ctrl.local_view_update of the view that
\* view_mode names; no view is updated under any other view_mode.
ContourView_update_active_view(m) ==
    IF m.state["view_mode"] = "Remote" /\ Has(m.self, "remote_view_update")
    THEN Update(m, "view.remote", Render(m))
    ELSE IF m.state["view_mode"] = "Local" /\ Has(m.self, "local_view_update")
    THEN Update(m, "view.local", Render(m))
    ELSE m

\* _update_contour_and_render applying the value to the filter without
\* pushing a view.
C16_UpdatesFilterOnly(m, new_value) ==
    LET m1 == IF new_value = PyNone THEN m ELSE SetState(m, "contour_value", new_value)
        v == m1.state["contour_value"]
    IN  IF ~CanFloat(v) THEN Raise(m1) ELSE SetPipe(m1, "contour_value", FloatOf(v))

\* ContourViewApp._update_contour_and_render(new_value=None)
ContourView_update_contour_and_render(m, new_value) ==
    LET m1 == IF new_value = PyNone THEN m ELSE SetState(m, "contour_value", new_value)
        v == m1.state["contour_value"]
    IN  IF ~CanFloat(v) THEN Raise(m1)
        ELSE ContourView_update_active_view(SetPipe(m1, "contour_value", FloatOf(v)))

\* _sync_view_on_mode_change leaving the newly activated view as it was.
C25_SkipsSync(m, view_mode) == m

\* ContourViewApp._sync_view_on_mode_change(view_mode)
ContourView_sync_view_on_mode_change(m, view_mode) ==
    IF view_mode = "Remote" /\ Has(m.self, "remote_view_update")
    THEN Update(m, "view.remote", Render(m))
    ELSE IF view_mode = "Local" /\ Has(m.self, "local_view_update")
    THEN Update(m, "view.local", Render(m))
    ELSE m

\* ContourViewApp._toggle_view_mode()
ContourView_toggle_view_mode(m) ==
    SetState(m, "view_mode", IF m.state["view_mode"] = "Local" THEN "Remote" ELSE "Local")

\* ContourViewApp._on_contour_value_change_interactive(contour_value)
ContourView_on_contour_value_change_interactive(m, contour_value) ==
    IF m.state["interactive_update"]
    THEN ContourView_update_contour_and_render(Direct(m, "_update_contour_and_render"),
                                               contour_value)
    ELSE m

\* ContourViewApp.commit_changes(value)
ContourView_commit_changes(m, value) ==
    IF ~m.state["interactive_update"]
    THEN ContourView_update_contour_and_render(Direct(m, "_update_contour_and_render"), value)
    ELSE m

\* reset_contour_and_camera resetting the camera of both views.
C17_ResetsBothCameras(m) ==
    LET m1 == ContourView_update_contour_and_render(
                  Direct(m, "_update_contour_and_render"), PyFloat(ContourView_default))
    IN  IF m1.raised THEN m1
        ELSE Direct(Direct(m1, "remote_view_reset_camera"), "local_view_reset_camera")

\* ContourViewApp.reset_contour_and_camera()
ContourView_reset_contour_and_camera(m) ==
    LET m1 == ContourView_update_contour_and_render(
                  Direct(m, "_update_contour_and_render"), m.self["default_contour_value"])
    IN  IF m1.raised THEN m1
        ELSE IF m1.state["view_mode"] = "Remote" /\ Has(m1.self, "remote_view_reset_camera")
        THEN Direct(m1, "remote_view_reset_camera")
        ELSE IF m1.state["view_mode"] = "Local" /\ Has(m1.self, "local_view_reset_camera")
        THEN Direct(m1, "local_view_reset_camera")
        ELSE m1

\* ContourViewApp.__init__: _setup_vtk_pipeline, _initialize_state,
\* default_contour_value, _build_ui and the first _update_contour_and_render.
ContourView_init(m) ==
    LET m1 == SetPipe(SetPipe(m, "contour_value", 0), "camera", "reset")
        m2 == SetState(SetState(SetState(SetState(m1,
                  "trame__title", "VTK Local/Remote Contour"),
                  "contour_value", PyFloat(ContourView_default)),
                  "view_mode", "Remote"), "interactive_update", TRUE)
        m3 == SetSelf(m2, "default_contour_value", PyFloat(ContourView_default))
        m4 == SetSelf(SetSelf(SetSelf(SetSelf(m3,
                  "remote_view_update", TRUE), "remote_view_reset_camera", TRUE),
                  "local_view_update", TRUE), "local_view_reset_camera", TRUE)
        m5 == Update(Update(m4, "view.remote", Nothing), "view.local", Nothing)
    IN  ContourView_update_contour_and_render(m5, PyNone)

(***************************************************************************)
(* 03_MultiViews/multiview.py: MultiViewApp.                               *)
(***************************************************************************)
MultiView_DEFAULT_RESOLUTION == 6
NB_COLS == 4
\* len(PALETTE)
PaletteSize == 6
\* self.colors = PALETTE + PALETTE: one render window for each colour,
\* numbered from 0 in the order _initialize_vtk appends them.
MultiView_render_windows == 0..(PaletteSize + PaletteSize - 1)

\* The ref of the VtkRemoteView built on render window view_idx.
ViewRef(view_idx) == "view" \o ToString(view_idx)

\* The views _build_ui creates, in order, each given as the render window it
\* is built on: int(num_render_windows / NB_COLS) rows of NB_COLS columns.
MultiView_html_views ==
    LET num_render_windows == Cardinality(MultiView_render_windows)
        num_rows == num_render_windows \div NB_COLS
        view_idx(k) == ((k - 1) \div NB_COLS) * NB_COLS + ((k - 1) % NB_COLS)
    IN  SelectSeq([k \in 1..(num_rows * NB_COLS) |-> view_idx(k)],
                  LAMBDA idx : idx < num_render_windows)

\* ctrl.update_views() updating the views of the first row only.
RECURSIVE C19_UpdatesFirstRow(_, _)
C19_UpdatesFirstRow(m, i) ==
    IF i > NB_COLS \/ i > Len(m.self["_html_views"]) THEN m
    ELSE LET ref == ViewRef(m.self["_html_views"][i])
         IN  C19_UpdatesFirstRow(Update(Direct(m, ref), ref, Render(m)), i + 1)

\* ctrl.update_views(): view.update of every view added, from the i-th on.
RECURSIVE MultiView_update_views(_, _)
MultiView_update_views(m, i) ==
    IF i > Len(m.self["_html_views"]) THEN m
    ELSE LET ref == ViewRef(m.self["_html_views"][i])
         IN  MultiView_update_views(Update(Direct(m, ref), ref, Render(m)), i + 1)

\* MultiViewApp._on_resolution_change(resolution=None)
MultiView_on_resolution_change(m, resolution) ==
    LET v == IF resolution = PyNone THEN m.state["resolution"] ELSE resolution
    IN  IF ~CanInt(v) THEN Raise(m)
        ELSE MultiView_update_views(SetPipe(m, "cone_resolution", IntOf(v)), 1)

\* MultiViewApp._reset_resolution()
MultiView_reset_resolution(m) ==
    SetState(m, "resolution", PyInt(MultiView_DEFAULT_RESOLUTION))

\* MultiViewApp.__init__: _initialize_vtk, _initialize_state, _build_ui, then
\* the explicit first call of the handler.
MultiView_init(m) ==
    LET m1 == SetPipe(m, "cone_resolution", 6)
        m2 == SetState(SetState(m1, "trame__title", "VTK Multi-View Application"),
                       "resolution", PyInt(MultiView_DEFAULT_RESOLUTION))
        m3 == SetSelf(SetSelf(m2, "render_windows", MultiView_render_windows),
                      "_html_views", MultiView_html_views)
        m4 == [m3 EXCEPT !.shown =
                 [w \in {ViewRef(MultiView_html_views[k]) : k \in 1..Len(MultiView_html_views)}
                    |-> Nothing]]
    IN  MultiView_on_resolution_change(m4, PyNone)

(***************************************************************************)
(* markdown/00_markdown.py: MarkdownViewerApp.  A path is the sequence of  *)
(* its components from the root of the file system.                        *)
(***************************************************************************)
\* Path(__file__).parent.resolve(): the directory of the script.
current_script_path == <<"examples", "markdown">>
\* state.file_options
file_options == {"demo.md", "sample.md", "module.md"}

\* Path(file_name): whether the name is absolute, and its components.
PathOf(file_name) ==
    CASE file_name = "" -> [absolute |-> FALSE, parts |-> << >>]
      [] file_name = "../notes.md" -> [absolute |-> FALSE, parts |-> <<"..", "notes.md">>]
      [] file_name = "/etc/hostname" -> [absolute |-> TRUE, parts |-> <<"etc", "hostname">>]
      [] file_name = "sub/../demo.md" ->
            [absolute |-> FALSE, parts |-> <<"sub", "..", "demo.md">>]
      [] OTHER -> [absolute |-> FALSE, parts |-> <<file_name>>]

\* current_script_path / file_name: an absolute right operand replaces the
\* left one.
JoinPath(base, file_name) ==
    IF PathOf(file_name).absolute THEN PathOf(file_name).parts
    ELSE base \o PathOf(file_name).parts

\* The file the operating system opens for a path: each ".." component
\* steps back to the parent of what precedes it.
RECURSIVE Located(_, _)
Located(parts, done) ==
    IF parts = << >> THEN done
    ELSE IF Head(parts) = ".."
    THEN Located(Tail(parts), IF done = << >> THEN << >> ELSE SubSeq(done, 1, Len(done) - 1))
    ELSE Located(Tail(parts), Append(done, Head(parts)))

\* The regular files of the machine: two outside the script's directory,
\* the script itself and, where the Markdown files were installed, those of
\* file_options.  "sub" is no directory of the script's directory.
Files(e) ==
    {<<"etc", "hostname">>, <<"examples", "notes.md">>,
     current_script_path \o <<"00_markdown.py">>}
        \cup (IF e.source = "ok" THEN {current_script_path \o <<f>> : f \in file_options}
              ELSE {})

\* A directory is what some file lies under.
IsDirectory(dir, e) ==
    \E f \in Files(e) : Len(f) > Len(dir) /\ SubSeq(f, 1, Len(dir)) = dir

\* md_file_path.exists() and md_file_path.is_file(): the path leads to a
\* regular file, and what each ".." steps back from is a directory.
IsFile(parts, e) ==
    /\ Located(parts, << >>) \in Files(e)
    /\ \A i \in 1..Len(parts) :
         parts[i] = ".." => IsDirectory(Located(SubSeq(parts, 1, i - 1), << >>), e)

\* What state.md_content holds: the text of a file, the error message for a
\* name, or the empty string.
TextOf(file) == [kind |-> "text", file |-> file, name |-> ""]
ErrorFor(file_name) == [kind |-> "error", file |-> << >>, name |-> file_name]
NoContent == [kind |-> "empty", file |-> << >>, name |-> ""]

\* MarkdownViewerApp._initialize_state
Markdown_initialize_state(m) ==
    SetState(SetState(SetState(SetState(m, "file_name", "demo.md"),
        "file_options", file_options), "md_content", NoContent),
        "trame__title", "Markdown Viewer (Trame 3)")

\* MarkdownViewerApp.update_markdown_content(file_name=None)
update_markdown_content(m, file_name_arg, e) ==
    LET file_name == IF file_name_arg = NoneName THEN m.state["file_name"] ELSE file_name_arg
    IN  IF file_name = NoneName THEN Raise(m)      \* Path / None: TypeError
        ELSE LET md_file_path == JoinPath(current_script_path, file_name)
             IN  IF IsFile(md_file_path, e)
                 THEN SetState(m, "md_content", TextOf(Located(md_file_path, << >>)))
                 ELSE SetState(m, "md_content", ErrorFor(file_name))

\* __init__ without its first call of the handler.
C21_InitializesOnly(m, e) == Markdown_initialize_state(m)

\* MarkdownViewerApp.__init__: _initialize_state, _build_ui, then the
\* explicit first call of the handler.
Markdown_init(m, e) ==
    update_markdown_content(Markdown_initialize_state(m), NoneName, e)

(***************************************************************************)
(* pydeck/00_mapping-demo.py: from_data_file, ALL_LAYERS, MappingDemoApp.  *)
(***************************************************************************)
\* The keys of ALL_LAYERS, in insertion order.
ALL_LAYERS == <<"Bike Rentals", "Bart Stop Exits", "Bart Stop Names", "Outbound Flow">>
LayerNames == {ALL_LAYERS[i] : i \in 1..Len(ALL_LAYERS)}

\* from_data_file(filename) at import: pd.read_json raises when the URL cannot
\* be read.
from_data_file(m, e) == IF e.source # "ok" THEN Raise(m) ELSE m

\* MappingDemoApp.update_map(activeLayers=None)
update_map(m, activeLayers) ==
    LET IsSelected(layer_name) == layer_name \in activeLayers
        selected_layers == SelectSeq(ALL_LAYERS, IsSelected)
    IN  IF Has(m.self, "_deck_widget")
        THEN IF selected_layers # << >>
             THEN Update(m, "_deck_widget", [kind |-> "deck", of |-> selected_layers])
             ELSE PrintMsg(Update(m, "_deck_widget", [kind |-> "deck", of |-> << >>]),
                           "No layers selected. Map cleared.")
        ELSE m

\* Import of the module, then MappingDemoApp.__init__.
MappingDemo_init(m, e) ==
    LET m0 == from_data_file(m, e)
    IN  IF m0.raised THEN m0
        ELSE LET m1 == SetState(m0, "activeLayers", LayerNames)
                 m2 == Update(SetSelf(m1, "_deck_widget", TRUE), "_deck_widget", Nothing)
             IN  update_map(m2, m2.state["activeLayers"])

(***************************************************************************)
(* 05_Applications/RemoteSelection.py: find_data_file, RemoteSelectionApp. *)
(***************************************************************************)
NPoints == 2
PointIds == 0..(NPoints - 1)
\* The selections a client makes: no point, the first point, every point.
Selections == {{}, {0}, PointIds}
\* The columns of the data frame built from the point data of the file.
field_names == <<"Temp", "Pres">>
Columns == {field_names[i] : i \in 1..Len(field_names)}
NoSelection == [src |-> "none", ids |-> {}]
\* The point data array vtkOriginalPointIds of the surface filter's output
\* (SetPassThroughPointIds): the id in the dataset of each surface point.  The
\* surface numbers its points in an order of its own.
vtkOriginalPointIds == [s \in PointIds |-> NPoints - 1 - s]

\* RemoteSelectionApp._initialize_vtk: without the data file it prints and
\* returns, leaving self.py_ds None.
RemoteSelection_initialize_vtk(m, e) ==
    IF e.source # "ok"
    THEN PrintMsg(m, "Could not find data/disk_out_ref.vtu")
    ELSE LET m1 == SetSelf(m, "py_ds", TRUE)
             m2 == SetPipe(SetPipe(m1, "actor_opacity", 5), "selection", NoSelection)
         IN  SetSelf(SetPipe(m2, "selection_visibility", FALSE), "interactor_style", "trackball")

\* RemoteSelectionApp._initialize_dataframe: self.py_ds.PointData
RemoteSelection_initialize_dataframe(m) ==
    IF ~Has(m.self, "py_ds") THEN Raise(m)        \* AttributeError on None
    ELSE SetSelf(m, "dataframe", Columns)

\* RemoteSelectionApp._initialize_state
RemoteSelection_initialize_state(m) ==
    SetState(SetState(SetState(SetState(SetState(m, "trame__title", "VTK Remote Selection"),
        "scatter_x", field_names[1]), "scatter_y", field_names[2]),
        "selected_indices", {}), "vtk_selection", FALSE)

\* RemoteSelectionApp._update_figure(scatter_x, scatter_y)
RemoteSelection_update_figure(m, scatter_x, scatter_y) ==
    IF scatter_x \notin m.self["dataframe"] \/ scatter_y \notin m.self["dataframe"]
    THEN Raise(m)                                  \* px.scatter: ValueError
    ELSE Update(m, "html_plot",
                [kind |-> "plotly",
                 of |-> [x |-> scatter_x, y |-> scatter_y,
                         selectedpoints |-> m.state["selected_indices"]]])

\* RemoteSelectionApp._update_interactor(vtk_selection)
RemoteSelection_update_interactor(m, vtk_selection) ==
    SetSelf(m, "interactor_style", IF vtk_selection THEN "selection" ELSE "trackball")

\* _on_chart_selection storing the indices without feeding the extraction.
C18_StoresIndicesOnly(m, selected_point_idxs) ==
    LET m1 == SetState(m, "selected_indices", selected_point_idxs)
    IN  Update(m1, "view", Render(m1))

\* RemoteSelectionApp._on_chart_selection(selected_point_idxs)
RemoteSelection_on_chart_selection(m, selected_point_idxs) ==
    LET m1 == SetState(m, "selected_indices", selected_point_idxs)
        npts == Cardinality(m1.state["selected_indices"])
        m2 == SetPipe(m1, "selection", [src |-> "full", ids |-> m1.state["selected_indices"]])
        m3 == SetPipe(m2, "selection_visibility", npts > 0)
    IN  Update(m3, "view", Render(m3))

\* RemoteSelectionApp._on_box_selection_change(event): hits are the points
\* the hardware selector finds in the area.
RemoteSelection_on_box_selection_change(m, hits) ==
    LET m1 == SetPipe(m, "actor_opacity", 10)
    IN  IF hits = {} THEN SetState(m1, "vtk_selection", FALSE)
        ELSE LET m2 == SetState(m1, "selected_indices", {vtkOriginalPointIds[s] : s \in hits})
                 m3 == SetPipe(m2, "selection", [src |-> "surface", ids |-> hits])
                 m4 == SetPipe(SetPipe(m3, "selection_visibility", Cardinality(hits) > 0),
                               "actor_opacity", 5)
                 m5 == RemoteSelection_update_figure(Direct(m4, "RemoteSelection._update_figure"),
                                                     m4.state["scatter_x"], m4.state["scatter_y"])
             IN  IF m5.raised THEN m5
                 ELSE SetState(Update(m5, "view", Render(m5)), "vtk_selection", FALSE)

\* RemoteSelectionApp.__init__
RemoteSelection_init(m, e) ==
    LET m1 == RemoteSelection_initialize_dataframe(RemoteSelection_initialize_vtk(m, e))
    IN  IF m1.raised THEN m1
        ELSE Update(Update(RemoteSelection_initialize_state(m1), "view", Nothing),
                    "html_plot", Nothing)

\* The callbacks _build_ui adds to on_server_ready: view.update and
\* _update_figure, called with the store's values.
RemoteSelection_on_server_ready(m) ==
    RemoteSelection_update_figure(Update(m, "view", Render(m)),
                                  m.state["scatter_x"], m.state["scatter_y"])

(***************************************************************************)
(* 05_Applications/MultiFilter.py: find_data_file and MultiFilterApp.  Its *)
(* view is a VtkRemoteLocalView, as in RemoteLocalViewRendering.py.        *)
(***************************************************************************)
\* self.dataset_arrays: the arrays of the file, with their ranges in halves.
\* The last one is constant over the data set.
MultiFilter_dataset_arrays ==
    << [value |-> "0_Temp", original_text |-> "Temp", type |-> 0, range |-> <<100, 500>>],
       [value |-> "0_Pres", original_text |-> "Pres", type |-> 0, range |-> <<0, 40>>],
       [value |-> "1_Flat", original_text |-> "Flat", type |-> 1, range |-> <<6, 6>>] >>
MultiFilter_array_values ==
    {MultiFilter_dataset_arrays[i].value : i \in 1..Len(MultiFilter_dataset_arrays)}

\* MultiFilterApp._get_array_info_by_value(value); None is the empty sequence.
MultiFilter_get_array_info_by_value(value) ==
    LET Is(arr_info) == arr_info.value = value
    IN  SelectSeq(MultiFilter_dataset_arrays, Is)

\* self.ctrl.view_update: ui_view.update, once _build_ui has bound it.
MultiFilter_view_update(m) ==
    IF Has(m.self, "ui_view") THEN RemoteLocal_view_update(m) ELSE Raise(m)

\* MultiFilterApp._on_cube_axes_visibility_change(cube_axes_visibility)
MultiFilter_on_cube_axes_visibility_change(m, cube_axes_visibility) ==
    MultiFilter_view_update(SetPipe(m, "cube_axes_visibility", cube_axes_visibility))

\* MultiFilterApp._update_actor_representation(actor, mode): representation,
\* point size, edge visibility.
MultiFilter_update_actor_representation(m, actor, mode) ==
    IF mode = 0 THEN SetPipe(m, actor \o "_property", <<"points", 5, FALSE>>)
    ELSE IF mode = 1 THEN SetPipe(m, actor \o "_property", <<"wireframe", 1, FALSE>>)
    ELSE IF mode = 2 THEN SetPipe(m, actor \o "_property", <<"surface", 1, FALSE>>)
    ELSE IF mode = 3 THEN SetPipe(m, actor \o "_property", <<"surface", 1, TRUE>>)
    ELSE m

\* _on_mesh_representation_change / _on_contour_representation_change
MultiFilter_on_representation_change(m, actor, representation) ==
    MultiFilter_view_update(MultiFilter_update_actor_representation(m, actor, representation))

\* MultiFilterApp._color_actor_by_array(actor, array_info)
MultiFilter_color_actor_by_array(m, actor, array_info) ==
    IF array_info = << >> THEN m
    ELSE SetPipe(m, actor \o "_color",
                 [array |-> array_info[1].original_text, range |-> array_info[1].range,
                  mode |-> IF array_info[1].type = 0 THEN "point" ELSE "cell"])

\* _on_mesh_color_array_value_change / _on_contour_color_array_value_change
MultiFilter_on_color_array_value_change(m, actor, color_array_value) ==
    MultiFilter_view_update(
        MultiFilter_color_actor_by_array(m, actor,
                                         MultiFilter_get_array_info_by_value(color_array_value)))

\* MultiFilterApp._apply_lut_preset(actor, preset)
MultiFilter_apply_lut_preset(m, actor, preset) ==
    IF preset \in 0..3 THEN SetPipe(m, actor \o "_lut", preset) ELSE m

\* _on_mesh_color_preset_change / _on_contour_color_preset_change
MultiFilter_on_color_preset_change(m, actor, color_preset) ==
    MultiFilter_view_update(MultiFilter_apply_lut_preset(m, actor, color_preset))

\* _on_mesh_opacity_change / _on_contour_opacity_change: SetOpacity takes a number.
MultiFilter_on_opacity_change(m, actor, opacity) ==
    IF ~IsNumber(opacity) THEN Raise(m)
    ELSE MultiFilter_view_update(SetPipe(m, actor \o "_opacity", FloatOf(opacity)))

\* MultiFilterApp._on_contour_by_array_value_change(contour_by_array_value)
MultiFilter_on_contour_by_array_value_change(m, contour_by_array_value) ==
    LET array_info == MultiFilter_get_array_info_by_value(contour_by_array_value)
    IN  IF array_info = << >> THEN m
        ELSE LET contour_min == array_info[1].range[1]
                 contour_max == array_info[1].range[2]
                 contour_step == IF contour_max - contour_min > 0
                                 THEN <<"hundredth of", contour_max - contour_min>>
                                 ELSE <<"0.01", 0>>
                 contour_val == (contour_max + contour_min) \div 2
                 m1 == SetPipe(SetPipe(m, "contour_array", array_info[1].original_text),
                               "contour_value", contour_val)
                 m2 == SetState(SetState(SetState(SetState(m1,
                           "contour_min", PyFloat(contour_min)),
                           "contour_max", PyFloat(contour_max)),
                           "contour_value", PyFloat(contour_val)),
                           "contour_step", contour_step)
             IN  MultiFilter_view_update(m2)

\* MultiFilterApp._on_contour_value_change(contour_value)
MultiFilter_on_contour_value_change(m, contour_value) ==
    IF ~CanFloat(contour_value) THEN Raise(m)
    ELSE MultiFilter_view_update(SetPipe(m, "contour_value", FloatOf(contour_value)))

\* MultiFilterApp.on_pipeline_actives_change(ids)
MultiFilter_on_pipeline_actives_change(m, ids) ==
    IF ids = << >> THEN m
    ELSE SetState(m, "active_ui",
                  IF ids[1] = "1" THEN "mesh" ELSE IF ids[1] = "2" THEN "contour" ELSE NoneName)

\* MultiFilterApp.on_pipeline_visibility_change(event): the item of
\* state.pipeline_items is changed in place, and the key assigned to itself.
MultiFilter_on_pipeline_visibility_change(m, event) ==
    IF event.id \notin {"1", "2"} THEN m
    ELSE LET actor == IF event.id = "1" THEN "mesh" ELSE "contour"
             m1 == SetPipe(m, actor \o "_visibility", event.visible)
             m2 == [m1 EXCEPT !.state = Put(@, "pipeline_items",
                                            [@["pipeline_items"] EXCEPT ![event.id] = event.visible])]
         IN  MultiFilter_view_update(m2)

\* MultiFilterApp._initialize_vtk
MultiFilter_initialize_vtk(m) ==
    SetSelf(SetSelf(SetPipe(m, "camera", "reset"),
                    "dataset_arrays", MultiFilter_dataset_arrays),
            "default_array_info", MultiFilter_dataset_arrays[1])

\* MultiFilterApp._initialize_state
MultiFilter_initialize_state(m) ==
    LET info == m.self["default_array_info"]
        S(mm, kv) == SetState(mm, kv[1], kv[2])
        kvs == << <<"trame__title", "VTK Multi-Filter Application">>,
                  <<"theme_mode", "light">>, <<"view_mode", "remote">>,
                  <<"active_ui", "mesh">>,
                  <<"pipeline_items", [x \in {"1", "2"} |-> TRUE]>>,
                  <<"dataset_arrays", m.self["dataset_arrays"]>>,
                  <<"cube_axes_visibility", TRUE>>,
                  <<"mesh_representation", 2>>, <<"mesh_color_array_value", info.value>>,
                  <<"mesh_color_preset", 0>>, <<"mesh_opacity", PyFloat(2)>>,
                  <<"contour_representation", 2>>, <<"contour_color_array_value", info.value>>,
                  <<"contour_color_preset", 0>>, <<"contour_opacity", PyFloat(2)>>,
                  <<"contour_by_array_value", info.value>>,
                  <<"contour_value", PyFloat((info.range[1] + info.range[2]) \div 2)>>,
                  <<"contour_min", PyFloat(info.range[1])>>,
                  <<"contour_max", PyFloat(info.range[2])>>,
                  <<"contour_step", <<"hundredth of", info.range[2] - info.range[1]>> >> >>
        F[i \in 0..Len(kvs)] == IF i = 0 THEN m ELSE S(F[i - 1], kvs[i])
    IN  F[Len(kvs)]

\* MultiFilterApp._build_ui: the view and the controller methods bound to it.
MultiFilter_build_ui(m) ==
    Update(Update(SetSelf(m, "ui_view", TRUE), "view.local", Nothing), "view.remote", Nothing)

\* MultiFilterApp._apply_initial_vtk_properties: every handler called with
\* the value of its key, then the visibility of each pipeline item.
MultiFilter_apply_initial_vtk_properties(m) ==
    LET st == m.state
        m1 == MultiFilter_on_cube_axes_visibility_change(m, st["cube_axes_visibility"])
        m2 == MultiFilter_on_representation_change(m1, "mesh", st["mesh_representation"])
        m3 == MultiFilter_on_color_array_value_change(m2, "mesh", st["mesh_color_array_value"])
        m4 == MultiFilter_on_color_preset_change(m3, "mesh", st["mesh_color_preset"])
        m5 == MultiFilter_on_opacity_change(m4, "mesh", st["mesh_opacity"])
        m6 == MultiFilter_on_representation_change(m5, "contour", st["contour_representation"])
        m7 == MultiFilter_on_color_array_value_change(m6, "contour", st["contour_color_array_value"])
        m8 == MultiFilter_on_color_preset_change(m7, "contour", st["contour_color_preset"])
        m9 == MultiFilter_on_opacity_change(m8, "contour", st["contour_opacity"])
        m10 == MultiFilter_on_contour_by_array_value_change(
                   Direct(m9, "_on_contour_by_array_value_change"), st["contour_by_array_value"])
        m11 == MultiFilter_on_pipeline_visibility_change(m10, [id |-> "1", visible |-> TRUE])
    IN  MultiFilter_on_pipeline_visibility_change(m11, [id |-> "2", visible |-> TRUE])

\* Import of the module (find_data_file raises FileNotFoundError when the
\* data file is in no parent directory), then MultiFilterApp.__init__.
MultiFilter_init(m, e) ==
    IF e.source # "ok" THEN Raise(m)
    ELSE MultiFilter_apply_initial_vtk_properties(
             MultiFilter_build_ui(MultiFilter_initialize_state(MultiFilter_initialize_vtk(m))))

(***************************************************************************)
(* Registrations: for each example, its @change handlers in the order the  *)
(* class defines them, each with the keys it watches.                      *)
(***************************************************************************)
\* The handler of resolution registered twice.
C1_RegisteredTwice ==
    << [h |-> "ClientView._on_resolution_change", keys |-> {"resolution"}],
       [h |-> "ClientView._on_resolution_change", keys |-> {"resolution"}] >>

\* @change("resolution") on ClientViewApp._on_resolution_change
ClientView_change == << [h |-> "ClientView._on_resolution_change", keys |-> {"resolution"}] >>
\* @change("resolution") on RemoteRenderingApp._on_resolution_change
RemoteRendering_change ==
    << [h |-> "RemoteRendering._on_resolution_change", keys |-> {"resolution"}] >>
\* @change("pickupHour") on UberPickupsApp.update_data_and_plots
Uber_change == << [h |-> "update_data_and_plots", keys |-> {"pickupHour"}] >>
\* @change("active_chart") on AltairChartsApp.update_chart
Altair_change == << [h |-> "Altair.update_chart", keys |-> {"active_chart"}] >>
\* The handler registered on the page title as well.
C2_WatchesTitleToo ==
    << [h |-> "Matplotlib._update_chart",
        keys |-> {"active_figure", "figure_size", "trame__title"}] >>

\* The handler registered once for each of its two keys.
C11_RegisteredPerKey ==
    << [h |-> "Matplotlib._update_chart", keys |-> {"active_figure"}],
       [h |-> "Matplotlib._update_chart", keys |-> {"figure_size"}] >>

\* @change("active_figure", "figure_size") on MatplotlibApp._update_chart
Matplotlib_change ==
    << [h |-> "Matplotlib._update_chart", keys |-> {"active_figure", "figure_size"}] >>
\* @change("active_plot_name") on PlotlyViewer.update_plot_figure
Plotly_change == << [h |-> "update_plot_figure", keys |-> {"active_plot_name"}] >>
\* @change("contour_value") on ContourApp.update_contour
RemoteLocal_change == << [h |-> "update_contour", keys |-> {"contour_value"}] >>
\* @change("resolution") on MultiViewApp._on_resolution_change
MultiView_change == << [h |-> "MultiView._on_resolution_change", keys |-> {"resolution"}] >>
\* @change("file_name") on MarkdownViewerApp.update_markdown_content
Markdown_change == << [h |-> "update_markdown_content", keys |-> {"file_name"}] >>
\* @change("view_mode") and @change("contour_value") on ContourViewApp
ContourView_change ==
    << [h |-> "ContourView._sync_view_on_mode_change", keys |-> {"view_mode"}],
       [h |-> "ContourView._on_contour_value_change_interactive", keys |-> {"contour_value"}] >>

\* @change("contour_value") on ContourRemoteApp._on_contour_value_change_interactive
ContourRemote_change ==
    << [h |-> "_on_contour_value_change_interactive", keys |-> {"contour_value"}] >>
\* @change("activeLayers") on MappingDemoApp.update_map
MappingDemo_change == << [h |-> "update_map", keys |-> {"activeLayers"}] >>
\* @change("scatter_x", "scatter_y") on _update_figure and
\* @change("vtk_selection") on _update_interactor of RemoteSelectionApp
RemoteSelection_change ==
    << [h |-> "RemoteSelection._update_figure", keys |-> {"scatter_x", "scatter_y"}],
       [h |-> "_update_interactor", keys |-> {"vtk_selection"}] >>

\* The ten @change handlers of MultiFilterApp
MultiFilter_change ==
    << [h |-> "_on_cube_axes_visibility_change", keys |-> {"cube_axes_visibility"}],
       [h |-> "_on_mesh_representation_change", keys |-> {"mesh_representation"}],
       [h |-> "_on_contour_representation_change", keys |-> {"contour_representation"}],
       [h |-> "_on_mesh_color_array_value_change", keys |-> {"mesh_color_array_value"}],
       [h |-> "_on_contour_color_array_value_change", keys |-> {"contour_color_array_value"}],
       [h |-> "_on_mesh_color_preset_change", keys |-> {"mesh_color_preset"}],
       [h |-> "_on_contour_color_preset_change", keys |-> {"contour_color_preset"}],
       [h |-> "_on_mesh_opacity_change", keys |-> {"mesh_opacity"}],
       [h |-> "_on_contour_opacity_change", keys |-> {"contour_opacity"}],
       [h |-> "_on_contour_by_array_value_change", keys |-> {"contour_by_array_value"}],
       [h |-> "MultiFilter._on_contour_value_change", keys |-> {"contour_value"}] >>

Watchers(a) ==
    CASE a = "ClientView" -> ClientView_change
      [] a = "RemoteRendering" -> RemoteRendering_change
      [] a = "Uber" -> Uber_change
      [] a = "Altair" -> Altair_change
      [] a = "Matplotlib" -> Matplotlib_change
      [] a = "Plotly" -> Plotly_change
      [] a = "ContourRemoteLocal" -> RemoteLocal_change
      [] a = "ContourRemote" -> ContourRemote_change
      [] a = "ContourView" -> ContourView_change
      [] a = "MultiView" -> MultiView_change
      [] a = "Markdown" -> Markdown_change
      [] a = "MappingDemo" -> MappingDemo_change
      [] a = "RemoteSelection" -> RemoteSelection_change
      [] a = "MultiFilter" -> MultiFilter_change
      [] OTHER -> << >>

\* The body of handler h, called with the keyword arguments kw.
BodyWith(h, m, kw) ==
    CASE h = "ClientView._on_resolution_change" ->
            ClientView_on_resolution_change(m, kw["resolution"])
      [] h = "update_data_and_plots" -> update_data_and_plots(m, kw["pickupHour"])
      [] h = "Altair.update_chart" ->
            Altair_update_chart(m, kw["active_chart"], RecursionDepth)
      [] h = "Matplotlib._update_chart" -> Matplotlib_update_chart(m, kw["active_figure"])
      [] h = "update_plot_figure" -> update_plot_figure(m, kw["active_plot_name"])
      [] h = "RemoteRendering._on_resolution_change" ->
            RemoteRendering_on_resolution_change(m, kw["resolution"])
      [] h = "update_contour" -> RemoteLocal_update_contour(m)
      [] h = "_on_contour_value_change_interactive" ->
            ContourRemote_on_contour_value_change_interactive(m, kw["contour_value"])
      [] h = "ContourView._sync_view_on_mode_change" ->
            ContourView_sync_view_on_mode_change(m, kw["view_mode"])
      [] h = "ContourView._on_contour_value_change_interactive" ->
            ContourView_on_contour_value_change_interactive(m, kw["contour_value"])
      [] h = "MultiView._on_resolution_change" ->
            MultiView_on_resolution_change(m, kw["resolution"])
      [] h = "update_markdown_content" -> update_markdown_content(m, kw["file_name"], env)
      [] h = "update_map" -> update_map(m, kw["activeLayers"])
      [] h = "RemoteSelection._update_figure" ->
            RemoteSelection_update_figure(m, kw["scatter_x"], kw["scatter_y"])
      [] h = "_update_interactor" -> RemoteSelection_update_interactor(m, kw["vtk_selection"])
      [] h = "_on_cube_axes_visibility_change" ->
            MultiFilter_on_cube_axes_visibility_change(m, kw["cube_axes_visibility"])
      [] h = "_on_mesh_representation_change" ->
            MultiFilter_on_representation_change(m, "mesh", kw["mesh_representation"])
      [] h = "_on_contour_representation_change" ->
            MultiFilter_on_representation_change(m, "contour", kw["contour_representation"])
      [] h = "_on_mesh_color_array_value_change" ->
            MultiFilter_on_color_array_value_change(m, "mesh", kw["mesh_color_array_value"])
      [] h = "_on_contour_color_array_value_change" ->
            MultiFilter_on_color_array_value_change(m, "contour", kw["contour_color_array_value"])
      [] h = "_on_mesh_color_preset_change" ->
            MultiFilter_on_color_preset_change(m, "mesh", kw["mesh_color_preset"])
      [] h = "_on_contour_color_preset_change" ->
            MultiFilter_on_color_preset_change(m, "contour", kw["contour_color_preset"])
      [] h = "_on_mesh_opacity_change" ->
            MultiFilter_on_opacity_change(m, "mesh", kw["mesh_opacity"])
      [] h = "_on_contour_opacity_change" ->
            MultiFilter_on_opacity_change(m, "contour", kw["contour_opacity"])
      [] h = "_on_contour_by_array_value_change" ->
            MultiFilter_on_contour_by_array_value_change(m, kw["contour_by_array_value"])
      [] h = "MultiFilter._on_contour_value_change" ->
            MultiFilter_on_contour_value_change(m, kw["contour_value"])
      [] OTHER -> m

\* The body of handler h, called with the store's current values as keywords.
Body(h, m) == BodyWith(h, m, m.state)

\* The values of its watched keys that handler w receives.
ArgsOf(w, st) == [k \in w.keys |-> st[k]]

(***************************************************************************)
(* The dispatcher of the State Store.  A changed key notifies every        *)
(* handler watching it, once per batch of changes, after the values are    *)
(* committed.  A handler that raises loses only its own remaining work:    *)
(* the failure is reported and the other handlers still run.  Keys changed *)
(* by a handler are dispatched in the next round.  The keys written while  *)
(* the application is built are dispatched when the server starts.         *)
(***************************************************************************)
FlushRounds == 3

Invoke(w, m) ==
    LET r == Body(w.h, [m EXCEPT !.raised = FALSE])
        rec == [h |-> w.h, by |-> "change", args |-> ArgsOf(w, m.state), raised |-> r.raised,
                round |-> m.round]
    IN  [r EXCEPT !.calls = Append(@, rec),
                  !.log = IF r.raised THEN @ \cup {"exception in change handler"} ELSE @,
                  !.raised = FALSE]

RECURSIVE RunAll(_, _, _, _)
RunAll(ws, i, changed, m) ==
    IF i > Len(ws) THEN m
    ELSE RunAll(ws, i + 1, changed,
                IF ws[i].keys \cap changed # {} THEN Invoke(ws[i], m) ELSE m)

RECURSIVE Flush(_, _, _)
Flush(a, m, fuel) ==
    IF m.dirty = {} \/ fuel = 0 THEN m
    ELSE Flush(a, RunAll(Watchers(a), 1, m.dirty, [m EXCEPT !.dirty = {}, !.round = @ + 1]),
               fuel - 1)

(***************************************************************************)
(* The examples, their environments and the values a client can deliver.   *)
(***************************************************************************)
Apps == {"ClientView", "RemoteRendering", "Uber", "Altair", "Matplotlib", "Plotly",
         "ContourRemoteLocal", "ContourRemote", "MappingDemo", "RemoteSelection"}
\* The examples that read a data file or URL whose absence the source handles
\* or raises on explicitly.
LoadsData == {"ContourRemote", "MappingDemo", "RemoteSelection"}
\* The examples besides: their sessions are checked in specifications of
\* their own.
MoreApps == {"MultiFilter", "ContourView", "MultiView", "Markdown"}

Envs(a) ==
    IF a = "Uber"
    THEN {[source |-> "ok", rows |-> rs, apiKey |-> k] : rs \in SUBSET RowPool, k \in {"None", "pk.key"}}
         \cup {[source |-> s, rows |-> {}, apiKey |-> k] :
                 s \in {"unreachable", "unparsable"}, k \in {"None", "pk.key"}}
    ELSE IF a \in LoadsData \cup {"MultiFilter", "Markdown"}
    THEN {[source |-> src, rows |-> {}, apiKey |-> "None"] : src \in {"ok", "unreachable"}}
    ELSE {[source |-> "ok", rows |-> {}, apiKey |-> "None"]}

ResolutionInputs ==
    {PyInt(3), PyInt(6), PyInt(60), PyFloat(15), PyNumStr(12), PyBadStr, PyNone}
\* Every slider position 0..MaxHour, an hour past the slider's range, 10.5,
\* "23", a string that is no number, and None.
HourInputs ==
    {PyInt(h) : h \in 0..(MaxHour + 1)} \cup {PyFloat(21), PyNumStr(23), PyBadStr, PyNone}

\* Slider values 25.0, 100.0 and 150.5, "70", a string that is no number, None.
ContourInputs == {PyInt(25), PyFloat(MidRange), PyFloat(301), PyNumStr(70), PyBadStr, PyNone}

\* Sizes the SizeObserver reports: width, height, pixelRatio, dpi.
FigureSizes ==
    {[width |-> 800, height |-> 400, pixelRatio |-> 1, dpi |-> 100],
     [width |-> 1600, height |-> 800, pixelRatio |-> 3, dpi |-> 100]}
\* The callable attributes of a MatplotlibApp that are no plotting method.
Matplotlib_other_methods == {"figure_size", "_update_chart", "_build_ui", "_initialize_state"}

\* The keys of example a that a client can write, each with the values sent.
Inputs(a) ==
    CASE a = "ClientView" -> [resolution |-> ResolutionInputs]
      [] a = "Uber" -> [pickupHour |-> HourInputs]
      [] a = "Altair" -> [active_chart |-> Altair_chart_options \cup Altair_other_methods
                                            \cup Altair_attributes \cup {"Bogus", NoneName}]
      [] a = "Matplotlib" ->
            [active_figure |-> {"FirstDemo", "Subplots", "DotsAndPoints"}
                                 \cup Matplotlib_other_methods \cup {"Bogus", "", NoneName},
             figure_size |-> FigureSizes,
             trame__title |-> {"renamed"}]
      [] a = "Plotly" -> [active_plot_name |-> DOMAIN PLOTS \cup {"Bogus", NoneName}]
      [] a = "RemoteRendering" -> [resolution |-> ResolutionInputs]
      [] a = "ContourRemoteLocal" ->
            [contour_value |-> ContourInputs, view_mode |-> {"local", "remote"}]
      [] a = "ContourRemote" -> [contour_value |-> ContourInputs, interactive_update |-> BOOLEAN]
      [] a = "ContourView" ->
            [contour_value |-> ContourInputs, interactive_update |-> BOOLEAN,
             view_mode |-> {"Local", "Remote"}]
      [] a = "MultiView" -> [resolution |-> ResolutionInputs \cup {PyInt(4), PyInt(59)}]
      [] a = "Markdown" ->
            [file_name |-> file_options \cup {"missing.md", "", "../notes.md", "/etc/hostname",
                                              "sub/../demo.md", NoneName}]
      [] a = "MappingDemo" -> [activeLayers |-> SUBSET LayerNames]
      [] a = "RemoteSelection" ->
            [scatter_x |-> Columns, scatter_y |-> Columns,
             vtk_selection |-> BOOLEAN]
      [] a = "MultiFilter" ->
            [contour_by_array_value |-> MultiFilter_array_values \cup {"Bogus"},
             contour_value |-> {PyInt(25), PyNumStr(70), PyNone}]
      [] OTHER -> Empty

\* The server-side callbacks bound to client events, with their arguments.
Events(a) ==
    CASE a = "ClientView" -> {<<"reset_resolution", 0>>}
      [] a = "ContourRemoteLocal" -> {<<"slider_end", 0>>}
      [] a = "ContourRemote" ->
            {<<"commit_changes", v>> : v \in ContourInputs} \cup {<<"reset_contour_and_camera", PyNone>>}
      [] a = "MultiView" -> {<<"_reset_resolution", 0>>}
      [] a = "ContourView" ->
            {<<"commit_changes", v>> : v \in ContourInputs}
            \cup {<<"reset_contour_and_camera", PyNone>>, <<"_toggle_view_mode", PyNone>>}
      [] a = "RemoteSelection" ->
            {<<"_on_chart_selection", ids>> : ids \in Selections}
            \cup {<<"_on_box_selection_change", hits>> : hits \in Selections}
      [] a = "MultiFilter" ->
            {<<"on_pipeline_actives_change", <<"2">> >>,
             <<"on_pipeline_visibility_change", [id |-> "2", visible |-> FALSE]>>}
      [] OTHER -> {}

OnEvent(a, ev, m) ==
    CASE a = "ClientView" /\ ev[1] = "reset_resolution" -> ClientView_reset_resolution(m)
      [] a = "ContourRemoteLocal" /\ ev[1] = "slider_end" -> RemoteLocal_view_update(m)
      [] a = "ContourRemote" /\ ev[1] = "commit_changes" -> ContourRemote_commit_changes(m, ev[2])
      [] a = "ContourRemote" /\ ev[1] = "reset_contour_and_camera" ->
            ContourRemote_reset_contour_and_camera(m)
      [] a = "MultiView" /\ ev[1] = "_reset_resolution" -> MultiView_reset_resolution(m)
      [] a = "ContourView" /\ ev[1] = "commit_changes" -> ContourView_commit_changes(m, ev[2])
      [] a = "ContourView" /\ ev[1] = "reset_contour_and_camera" ->
            ContourView_reset_contour_and_camera(m)
      [] a = "ContourView" /\ ev[1] = "_toggle_view_mode" -> ContourView_toggle_view_mode(m)
      [] ev[1] = "_on_chart_selection" -> RemoteSelection_on_chart_selection(m, ev[2])
      [] ev[1] = "_on_box_selection_change" -> RemoteSelection_on_box_selection_change(m, ev[2])
      [] ev[1] = "on_pipeline_actives_change" -> MultiFilter_on_pipeline_actives_change(m, ev[2])
      [] ev[1] = "on_pipeline_visibility_change" ->
            MultiFilter_on_pipeline_visibility_change(m, ev[2])
      [] OTHER -> m

\* Module import and __init__ of example a in environment e.
Constructed(a, e, m) ==
    CASE a = "ClientView" -> ClientView_init(m)
      [] a = "Uber" -> Uber_init(m, e)
      [] a = "Altair" -> Altair_init(m)
      [] a = "Matplotlib" -> Matplotlib_init(m)
      [] a = "Plotly" -> Plotly_init(m)
      [] a = "RemoteRendering" -> RemoteRendering_init(m)
      [] a = "ContourRemoteLocal" -> RemoteLocal_init(m)
      [] a = "ContourRemote" -> ContourRemote_init(m, e)
      [] a = "ContourView" -> ContourView_init(m)
      [] a = "MultiView" -> MultiView_init(m)
      [] a = "Markdown" -> Markdown_init(m, e)
      [] a = "MappingDemo" -> MappingDemo_init(m, e)
      [] a = "RemoteSelection" -> RemoteSelection_init(m, e)
      [] a = "MultiFilter" -> MultiFilter_init(m, e)
      [] OTHER -> m

\* The callbacks example a added to ctrl.on_server_ready.
OnServerReady(a, m) ==
    CASE a = "ContourRemote" -> ContourRemote_on_server_ready(m)
      [] a = "RemoteSelection" -> RemoteSelection_on_server_ready(m)
      [] OTHER -> m

(***************************************************************************)
(* The state machine.                                                      *)
(***************************************************************************)
\* What an operation leaves on record: the operation, the keys whose new
\* value it dispatched, the calls it made, in order of completion, and the key that the
\* operation before it set to a new value ("" when it set none).
Record(op, m0, m) ==
    [op |-> op,
     changed |-> m.written,
     calls |-> m.calls,
     after |-> IF last.op[1] = "set" /\ last.op[2] \in last.changed THEN last.op[2] ELSE ""]

\* An operation ends: what it left is in force.  The session's generator is
\* followed for MaxUnseededDraws draws after a seeding.
Commit(op, m0, m) ==
    /\ m.process.rng.draws <= MaxUnseededDraws
    /\ state' = m.state
    /\ self' = m.self
    /\ shown' = m.shown
    /\ log' = m.log
    /\ last' = Record(op, m0, m)
    /\ process' = m.process
    /\ peer' = peer

\* The image of a session that is not there.
NoPeer == [phase |-> "none", state |-> Empty, self |-> Empty, shown |-> Empty, log |-> {},
           last |-> [op |-> <<"start", "", 0>>, changed |-> {}, calls |-> << >>, after |-> ""]]

InitOf(examples) ==
    /\ app \in examples
    /\ env \in Envs(app)
    /\ phase = "start"
    /\ state = Empty
    /\ self = Empty
    /\ shown = Empty
    /\ log = {}
    /\ last = [op |-> <<"start", "", 0>>, changed |-> {}, calls |-> << >>,
               after |-> ""]
    /\ process = ProcessAtImport
    /\ peer = NoPeer

\* The process starts: the module is imported and the application object is
\* constructed.  An exception that leaves __init__ ends the process.
Construct ==
    /\ phase = "start"
    /\ LET m0 == Machine(state, self, shown, log)
           m == Constructed(app, env, m0)
       IN  /\ phase' = IF m.raised THEN "crashed" ELSE "built"
           /\ Commit(<<"construct", "", 0>>, m0, m)
    /\ UNCHANGED <<app, env>>

\* The server starts: the keys the construction wrote notify their handlers,
\* then the callbacks of on_server_ready run.
ServerStart ==
    /\ phase = "built"
    /\ LET m0 == Machine(state, self, shown, log)
           m1 == Flush(app, [m0 EXCEPT !.dirty = last.changed, !.written = last.changed],
                       FlushRounds)
           r == OnServerReady(app, m1)
           m == Flush(app, [r EXCEPT !.raised = FALSE,
                                     !.log = IF r.raised THEN @ \cup {"exception in callback"} ELSE @],
                      FlushRounds)
       IN  Commit(<<"serve", "", 0>>, m0, m)
    /\ phase' = "running"
    /\ UNCHANGED <<app, env>>

\* The client delivers a new value for one key; the handlers watching it run
\* when the value changed.
ClientSet ==
    /\ phase = "running"
    /\ \E k \in DOMAIN Inputs(app) : \E v \in Inputs(app)[k] :
         LET m0 == Machine(state, self, shown, log)
             m == Flush(app, SetState(m0, k, v), FlushRounds)
         IN  Commit(<<"set", k, v>>, m0, m)
    /\ UNCHANGED <<app, env, phase>>

\* The client fires an event bound to a server-side callback.
ClientEvent ==
    /\ phase = "running"
    /\ \E ev \in Events(app) :
         LET m0 == Machine(state, self, shown, log)
             r == OnEvent(app, ev, m0)
             m == Flush(app, [r EXCEPT !.raised = FALSE,
                                       !.log = IF r.raised THEN @ \cup {"exception in callback"} ELSE @],
                        FlushRounds)
         IN  Commit(<<"event", ev[1], ev[2]>>, m0, m)
    /\ UNCHANGED <<app, env, phase>>

\* The values a client sends in messages that change two keys at once: for
\* the Matplotlib example a plotting method, a method that is none, and a
\* name that is no attribute, each with a resize or a new title.
BatchInputs(a) ==
    CASE a = "Matplotlib" ->
            [active_figure |-> {"Subplots", "_initialize_state", "Bogus"},
             figure_size |-> FigureSizes,
             trame__title |-> {"renamed"}]
      [] OTHER -> Inputs(a)

\* The client delivers new values for two keys in one message; the handlers
\* run after both values are committed.
ClientBatch ==
    /\ phase = "running"
    /\ \E k1 \in DOMAIN BatchInputs(app) : \E k2 \in DOMAIN BatchInputs(app) \ {k1} :
         \E v1 \in BatchInputs(app)[k1] : \E v2 \in BatchInputs(app)[k2] :
           LET m0 == Machine(state, self, shown, log)
               m == Flush(app, SetState(SetState(m0, k1, v1), k2, v2), FlushRounds)
           IN  Commit(<<"batch", {k1, k2}, [k \in {k1, k2} |-> IF k = k1 THEN v1 ELSE v2]>>,
                      m0, m)
    /\ UNCHANGED <<app, env, phase>>

Init == InitOf(Apps)

Next == Construct \/ ServerStart \/ ClientSet \/ ClientEvent

\* A session of any of the examples.
Spec == Init /\ [][Next]_vars

\* A session of an example that binds no event to a server-side callback.
NextOfSets == Construct \/ ServerStart \/ ClientSet

InitUber == InitOf({"Uber"})
SpecUber == InitUber /\ [][NextOfSets]_vars

InitCharts == InitOf({"Altair", "Matplotlib", "Plotly"})
SpecCharts == InitCharts /\ [][NextOfSets]_vars

\* A session of an example whose handlers watch two keys, with messages that
\* change two keys at once.
NextOfBatches == Construct \/ ServerStart \/ ClientSet \/ ClientBatch
InitBatches == InitOf({"Matplotlib", "RemoteSelection"})
SpecBatches == InitBatches /\ [][NextOfBatches]_vars

\* The image of the session the server is working for.
SessionImage ==
    [phase |-> phase, state |-> state, self |-> self, shown |-> shown, log |-> log,
     last |-> last]

\* The server turns to the other session of the process: a second instance of
\* the same application class, with a State Store and a Widget Tree of its
\* own.
SwitchSession ==
    /\ peer.phase # "none"
    /\ phase \in {"built", "running"}
    /\ peer' = SessionImage
    /\ phase' = peer.phase
    /\ state' = peer.state
    /\ self' = peer.self
    /\ shown' = peer.shown
    /\ log' = peer.log
    /\ last' = peer.last
    /\ UNCHANGED <<app, env, process>>

\* The selections the clients of two sessions make.
SessionInputs(a) ==
    CASE a = "Matplotlib" -> [active_figure |-> {"FirstDemo", "DotsAndPoints"}]
      [] a = "Plotly" -> [active_plot_name |-> {"Contour", "BarChart"}]
      [] a = "MappingDemo" -> [activeLayers |-> {LayerNames, {}}]
      [] OTHER -> Empty

\* The client of the session the server is working for delivers a selection.
SessionSet ==
    /\ phase = "running"
    /\ \E k \in DOMAIN SessionInputs(app) : \E v \in SessionInputs(app)[k] :
         LET m0 == Machine(state, self, shown, log)
             m == Flush(app, SetState(m0, k, v), FlushRounds)
         IN  Commit(<<"set", k, v>>, m0, m)
    /\ UNCHANGED <<app, env, phase>>

\* Two sessions of one example in one process.
NextOfSessions == Construct \/ ServerStart \/ SessionSet \/ SwitchSession
InitSessions ==
    /\ app \in {"Matplotlib", "Plotly", "MappingDemo"}
    /\ env \in Envs(app)
    /\ phase = "start"
    /\ state = Empty
    /\ self = Empty
    /\ shown = Empty
    /\ log = {}
    /\ last = NoPeer.last
    /\ process = ProcessAtImport
    /\ peer = [NoPeer EXCEPT !.phase = "start"]
SpecSessions == InitSessions /\ [][NextOfSessions]_vars

\* A session of a contour example with an Interactive checkbox.
InitContour == InitOf({"ContourRemote", "ContourView"})
SpecContour == InitContour /\ [][Next]_vars

\* A session of the multi-view example.
InitMultiView == InitOf({"MultiView"})
SpecMultiView == InitMultiView /\ [][Next]_vars

\* A session of an example whose display follows a selector.
InitSelectors == InitOf({"Altair", "Matplotlib", "Plotly", "MappingDemo", "Markdown"})
SpecSelectors == InitSelectors /\ [][NextOfSets]_vars

\* A session of the Markdown viewer.
InitMarkdown == InitOf({"Markdown"})
SpecMarkdown == InitMarkdown /\ [][NextOfSets]_vars

\* A session of any example, those of MoreApps included.
InitAll == InitOf(Apps \cup MoreApps)
SpecAll == InitAll /\ [][Next]_vars

(***************************************************************************)
(* Vocabulary of the properties.                                           *)
(***************************************************************************)
Watched(a, k) == \E i \in 1..Len(Watchers(a)) : k \in Watchers(a)[i].keys
IsSet(rec) == rec.op[1] = "set"
IsSetOf(rec, k) == rec.op[1] = "set" /\ rec.op[2] = k
\* The calls of an operation that the dispatcher made on a handler watching k.
Triggered(rec, k) ==
    LET OnK(c) == c.by = "change" /\ k \in DOMAIN c.args
    IN  SelectSeq(rec.calls, OnK)
\* The values of k those calls received, in call order.
Received(rec, k) == [i \in 1..Len(Triggered(rec, k)) |-> Triggered(rec, k)[i].args[k]]
\* Watched keys that a handler of the example itself writes while it runs.
HandlerWritten(a) ==
    CASE a = "Altair" -> {"active_chart"}
      [] a = "Matplotlib" -> {"active_figure"}
      [] a = "ContourRemote" -> {"contour_value"}
      [] a = "ContourView" -> {"contour_value"}
      [] OTHER -> {}

(***************************************************************************)
(* C2 A handler registered on keys {A, B} is never triggered by a set of   *)
(* an unrelated key: every call the dispatcher makes on _update_chart      *)
(* belongs to an operation that gave active_figure or figure_size a new    *)
(* value, every call on _update_figure to one that gave scatter_x or       *)
(* scatter_y a new value, and so for every handler and its keys.           *)
(***************************************************************************)
C2_TriggeredOnlyByWatchedKeys ==
    \A i \in 1..Len(last.calls) :
        last.calls[i].by = "change" =>
            /\ DOMAIN last.calls[i].args \cap last.changed # {}
            /\ last.calls[i].h = "Matplotlib._update_chart"
                   => {"active_figure", "figure_size"} \cap last.changed # {}
            /\ last.calls[i].h = "RemoteSelection._update_figure"
                   => {"scatter_x", "scatter_y"} \cap last.changed # {}

\* An unrelated key of the Matplotlib example got a new value and the handler
\* of active_figure and figure_size was not called.
C2_Witness ==
    /\ app = "Matplotlib" /\ IsSetOf(last, "trame__title")
    /\ "trame__title" \in last.changed
    /\ state["trame__title"] = "renamed"
    /\ last.calls = << >>

Decks == {map_definitions[i].widget_name : i \in 1..Len(map_definitions)}

C5_DecksHoldRowsOfHour ==
    \A h \in 0..MaxHour :
        (app = "Uber" /\ IsSetOf(last, "pickupHour") /\ last.op[3] = PyInt(h))
        => \A d \in Decks :
              /\ shown[d].kind = "deck"
              /\ shown[d].of.data = {r \in self["_data_cache"] : r.hour = h}
              /\ shown[d].of.data = {r \in env.rows : r.hour = h}

\* pickupHour went from another hour to 23, and the decks hold the one row of
\* that hour out of a data set that has rows of another hour too.
C5_Witness ==
    /\ app = "Uber" /\ env.source = "ok" /\ env.rows = RowPool
    /\ IsSetOf(last, "pickupHour") /\ last.op[3] = PyInt(MaxHour)
    /\ "pickupHour" \in last.changed
    /\ Len(last.calls) = 1
    /\ \A d \in Decks : Cardinality(shown[d].of.data) = 1

(***************************************************************************)
(* C6 For every name n of PLOTS, after active_plot_name is set to n the    *)
(* plotly display holds PLOTS[n] itself, and after any sequence of         *)
(* selections the display never holds a chart other than the one selected  *)
(* last: a selection that names no plot leaves the display as it was.      *)
(***************************************************************************)
C6_DisplayIsSelectedPlot ==
    /\ [](\A n \in DOMAIN PLOTS :
            (app = "Plotly" /\ phase = "running" /\ state["active_plot_name"] = n)
            => shown["plotly_display"] = [kind |-> "plotly", of |-> PLOTS[n]])
    /\ [][ (app = "Plotly" /\ phase = "running"
            /\ state'["active_plot_name"] \notin DOMAIN PLOTS)
           => shown' = shown ]_vars

\* One selection after another, and the display holds the plot selected last.
C6_Witness ==
    /\ app = "Plotly" /\ IsSetOf(last, "active_plot_name") /\ last.op[3] = "BarChart"
    /\ last.after = "active_plot_name"
    /\ Len(last.calls) = 1
    /\ shown["plotly_display"].of = "BAR_CHART"

(***************************************************************************)
(* C7 For a selector value that is none of the names offered to the user,  *)
(* the handler logs the problem and clears the display or leaves it as it  *)
(* was; it pushes no chart and calls no other method of the application.   *)
(***************************************************************************)
Selector(a) ==
    CASE a = "Altair" -> "active_chart"
      [] a = "Matplotlib" -> "active_figure"
      [] a = "Plotly" -> "active_plot_name"
      [] OTHER -> ""
Offered(a) ==
    CASE a = "Altair" -> Altair_chart_options
      [] a = "Matplotlib" -> Matplotlib_figures
      [] a = "Plotly" -> DOMAIN PLOTS
      [] OTHER -> {}
Display(a) ==
    CASE a = "Altair" -> "altair_figure"
      [] a = "Matplotlib" -> "html_figure"
      [] a = "Plotly" -> "plotly_display"
      [] OTHER -> ""
\* What counts as logging the problem: the handler's own message, or the
\* report of the exception it raised.
ProblemMessages ==
    {"Error: Chart method not found", "Error: Plotting method not found",
     "exception in change handler"}

C7_UnknownSelectorOnlyLogged ==
    [][ (app \in {"Altair", "Matplotlib", "Plotly"} /\ phase = "running"
         /\ IsSetOf(last', Selector(app)) /\ Selector(app) \in last'.changed
         /\ last'.op[3] \notin Offered(app))
        => /\ log' \cap ProblemMessages # {}
           /\ shown' = shown \/ shown'[Display(app)] \in {Nothing, [kind |-> "vega", of |-> "{}"]}
           /\ \A i \in 1..Len(last'.calls) : last'.calls[i].by # "direct" ]_vars

(***************************************************************************)
(* C8 When a change handler fails while handling a new value, the session  *)
(* keeps running and accepts later changes, the failure is reported, and   *)
(* every widget keeps displaying the artifact it displayed before.         *)
(***************************************************************************)
TriggeredRaised(rec) ==
    \E i \in 1..Len(rec.calls) : rec.calls[i].by = "change" /\ rec.calls[i].raised

C8_FailedHandlerKeepsDisplay ==
    [][ (phase = "running" /\ IsSet(last') /\ TriggeredRaised(last'))
        => /\ phase' = "running"
           /\ "exception in change handler" \in log'
           /\ shown' = shown ]_vars

\* A pickupHour that int() rejects came after a successful change to 23; the
\* decks still hold the row of hour 23.
C8_Witness ==
    /\ app = "Uber" /\ phase = "running" /\ env.rows = RowPool
    /\ IsSetOf(last, "pickupHour") /\ last.op[3] = PyBadStr
    /\ last.after = "pickupHour"
    /\ TriggeredRaised(last)
    /\ "exception in change handler" \in log
    /\ \A d \in Decks : Cardinality(shown[d].of.data) = 1

(***************************************************************************)
(* C9 There is no rollback: when a handler raises while handling           *)
(* set(key, v), get(key) still returns v afterwards, and the entries the   *)
(* handler wrote before raising keep their new values (the loading flag    *)
(* that update_data_and_plots raised stays raised).                        *)
(***************************************************************************)
C9_NoRollback ==
    (phase = "running" /\ IsSet(last) /\ last.op[2] \in last.changed /\ TriggeredRaised(last))
    => /\ state[last.op[2]] = last.op[3]
       /\ app = "Uber" => state["loading"] = TRUE

\* update_contour raised on a contour value that is no number, and the store
\* holds that value.
C9_Witness ==
    /\ app = "ContourRemoteLocal" /\ IsSetOf(last, "contour_value")
    /\ last.op[3] = PyNumStr(70)
    /\ TriggeredRaised(last)
    /\ state["contour_value"] = PyNumStr(70)
    /\ self["pipeline"]["contour_value"] # 140

(***************************************************************************)
(* C4 In every example a dataset-load failure (unreachable URL, missing    *)
(* data file) is caught and replaced with an empty or placeholder data     *)
(* set, and the process goes on running instead of ending during startup.  *)
(***************************************************************************)
C4_LoadFailureNeverEndsProcess ==
    (env.source # "ok" /\ phase # "start") => phase \in {"built", "running"}

(***************************************************************************)
(* C10 A change handler that mutates a rendering pipeline in place issues  *)
(* a view update after the mutation and before it returns, in every view   *)
(* mode the client can be displaying: when the handlers of a change have   *)
(* returned, the view the client displays shows the pipeline as it is.     *)
(***************************************************************************)
\* The views of example a that a client displays when the store is st.
Displayed(a, st) ==
    CASE a = "ClientView" -> {"cone"}
      [] a = "ContourRemoteLocal" ->
            {IF st["view_mode"] = "local" THEN "view.local" ELSE "view.remote"}
      [] a \in {"RemoteRendering", "ContourRemote", "RemoteSelection"} -> {"view"}
      [] OTHER -> {}

C10_MutationIsPushedToDisplayedView ==
    [][ (phase = "running" /\ IsSet(last') /\ Has(self, "pipeline")
         /\ Len(last'.calls) > 0 /\ ~TriggeredRaised(last')
         /\ self'["pipeline"] # self["pipeline"])
        => \A v \in Displayed(app, state') :
              shown'[v] = [kind |-> "render", of |-> self'["pipeline"]] ]_vars

(***************************************************************************)
(* C11 For a batch of simultaneous changes to several keys every change    *)
(* handler fires at most once for that batch, also when it watches two or  *)
(* more of the changed keys: no dispatch round of any operation holds two  *)
(* calls of one handler, and a message that changes two keys gives no      *)
(* handler more than one call in the round that dispatches the message.    *)
(***************************************************************************)
\* The calls of an operation the dispatcher made on handler h in round n.
CallsInRound(rec, h, n) ==
    {i \in 1..Len(rec.calls) :
        rec.calls[i].by = "change" /\ rec.calls[i].h = h /\ rec.calls[i].round = n}
Handlers(a) == {Watchers(a)[i].h : i \in 1..Len(Watchers(a))}

C11_OncePerBatch ==
    /\ \A h \in Handlers(app) : \A n \in 1..FlushRounds :
          Cardinality(CallsInRound(last, h, n)) <= 1
    /\ last.op[1] = "batch"
          => \A i \in 1..Len(last.calls) :
                (last.calls[i].by = "change" /\ last.calls[i].round = 1)
                => \A k \in DOMAIN last.calls[i].args \cap last.op[2] :
                      last.calls[i].args[k] = last.op[3][k]

\* active_figure and figure_size changed in one message and _update_chart ran
\* once, with both new values.
C11_Witness ==
    /\ app = "Matplotlib" /\ last.op[1] = "batch"
    /\ last.op[2] = {"active_figure", "figure_size"}
    /\ {"active_figure", "figure_size"} \subseteq last.changed
    /\ Cardinality(CallsInRound(last, "Matplotlib._update_chart", 1)) = 1
    /\ Len(last.calls) = 2
    /\ last.calls[2].args = [active_figure |-> "Subplots", figure_size |-> state["figure_size"]]
    /\ shown["html_figure"] = [kind |-> "figure", of |-> <<"Subplots", <<8, 4, 100>>, RngSeeded>>]

(***************************************************************************)
(* C12 Every change handler is idempotent: invoked twice in succession     *)
(* with the same input, it leaves the state store, the application object  *)
(* with the pipeline it owns, and the artifact last pushed to each widget  *)
(* as one invocation leaves them, and it fails the second time exactly     *)
(* when it failed the first time.                                          *)
(***************************************************************************)
\* The values a handler of MultiFilterApp can be given for each watched key.
MultiFilter_values ==
    [cube_axes_visibility |-> BOOLEAN,
     mesh_representation |-> {0, 1, 2, 3, 7},
     contour_representation |-> {0, 1, 2, 3, 7},
     mesh_color_array_value |-> MultiFilter_array_values \cup {"Bogus"},
     contour_color_array_value |-> MultiFilter_array_values \cup {"Bogus"},
     mesh_color_preset |-> {0, 1, 2, 3, 7},
     contour_color_preset |-> {0, 1, 2, 3, 7},
     mesh_opacity |-> {PyFloat(1), PyFloat(2), PyNone},
     contour_opacity |-> {PyFloat(1), PyFloat(2), PyNone},
     contour_by_array_value |-> MultiFilter_array_values \cup {"Bogus"},
     contour_value |-> {PyFloat(300), PyInt(25), PyNumStr(70), PyNone}]
\* The values a handler of example a can be given for each watched key.
HandlerValues(a) == IF a = "MultiFilter" THEN MultiFilter_values ELSE Inputs(a)

\* Handler w run once after key k got value v, and run once more from m.
Once(w, k, v) ==
    BodyWith(w.h, Machine(Put(state, k, v), self, shown, log), Put(state, k, v))
Again(w, k, v, m) ==
    BodyWith(w.h, [m EXCEPT !.raised = FALSE], Put(state, k, v))

C12_HandlersIdempotent ==
    phase = "running"
    => \A i \in 1..Len(Watchers(app)) :
         \A k \in Watchers(app)[i].keys \cap DOMAIN HandlerValues(app) :
           \A v \in HandlerValues(app)[k] :
              LET once == Once(Watchers(app)[i], k, v)
                  twice == Again(Watchers(app)[i], k, v, once)
              IN  /\ twice.state = once.state
                  /\ twice.self = once.self
                  /\ twice.shown = once.shown
                  /\ twice.raised = once.raised

(***************************************************************************)
(* C13 update(artifact) on a widget replaces the artifact displayed before *)
(* wholesale, and a second update with the same artifact leaves the client *)
(* as the first left it: after update_plot_figure has handled a name of    *)
(* PLOTS the display is that figure and nothing else, whatever it held,    *)
(* and it is unchanged when it held that figure already.                   *)
(***************************************************************************)
\* update(a) on widget w, once and twice, from the current state.
UpdatedOnce(w, a) == Update(Machine(state, self, shown, log), w, a)
UpdatedTwice(w, a) == Update(UpdatedOnce(w, a), w, a)
\* update(a) on w displays a on w, leaves the other widgets alone, and does
\* the same when repeated.
ReplacesWholesale(w, a) ==
    /\ UpdatedOnce(w, a).shown[w] = a
    /\ \A x \in DOMAIN shown \ {w} : UpdatedOnce(w, a).shown[x] = shown[x]
    /\ UpdatedTwice(w, a) = UpdatedOnce(w, a)

IsSwitch ==
    /\ peer' = SessionImage
    /\ phase' = peer.phase /\ state' = peer.state /\ self' = peer.self
    /\ shown' = peer.shown /\ log' = peer.log /\ last' = peer.last

C14_SessionsIsolated ==
    [][ (peer.phase \in {"built", "running"} /\ ~IsSwitch)
        => /\ peer' = peer
           /\ process' = process ]_vars


(***************************************************************************)
(* C15 Without MAPBOX_API_KEY in the environment, UberPickupsApp           *)
(* construction completes, the warning is printed, the warning alert is in *)
(* the UI and every deck pushed carries no API key; a pickupHour change to *)
(* a value int() accepts completes without raising and pushes every deck.  *)
(***************************************************************************)
\* An Uber session whose environment holds no MAPBOX_API_KEY.
C15_KeyAbsent == app = "Uber" /\ env.apiKey = "None" /\ phase # "start"

\* Construction completed, the warning was printed and the alert placed, and
\* every deck displayed was built with api_keys=None.
C15_DegradesGracefully ==
    /\ phase # "crashed"
    /\ "WARNING: MAPBOX_API_KEY" \in log
    /\ shown["VAlert"] = [kind |-> "alert", of |-> 0]
    /\ \A d \in Decks : shown[d] # Nothing /\ shown[d].of.api_keys = "None"

ActiveView(st) ==
    IF app = "ContourRemote" THEN "view"
    ELSE IF st["view_mode"] = "Remote" THEN "view.remote" ELSE "view.local"

\* The value v is in the contour filter and the active view shows the
\* pipeline as it is now.
AppliedAndPushed(v, sf, sh, st) ==
    /\ sf["pipeline"]["contour_value"] = FloatOf(v)
    /\ sh[ActiveView(st)] = [kind |-> "render", of |-> sf["pipeline"]]

\* The step is a change of contour_value in a running contour example.
ContourChange ==
    /\ phase = "running" /\ IsSetOf(last', "contour_value")
    /\ "contour_value" \in last'.changed
\* The step is the slider's end event in a running contour example.
SliderEnd == phase = "running" /\ last'.op[1] = "event" /\ last'.op[2] = "commit_changes"

\* What a step does with the value v it brings, for the values in Accepted.
InteractiveContract(Accepted) ==
    /\ ContourChange =>
         IF state["interactive_update"]
         THEN last'.op[3] \in Accepted => AppliedAndPushed(last'.op[3], self', shown', state')
         ELSE self' = self /\ shown' = shown
    /\ SliderEnd =>
         IF state["interactive_update"]
         THEN state' = state /\ self' = self /\ shown' = shown
         ELSE last'.op[3] \in Accepted
              => /\ state'["contour_value"] = last'.op[3]
                 /\ AppliedAndPushed(last'.op[3], self', shown', state')

DefaultContour ==
    IF app = "ContourView" THEN PyFloat(ContourView_default) ELSE PyFloat(MidRange)

\* The reset_camera methods the operation on record called.
CameraResets(rec) ==
    {rec.calls[i].h : i \in 1..Len(rec.calls)}
        \cap {"remote_view_reset_camera", "local_view_reset_camera"}

C18_CrossSelection ==
    (app = "RemoteSelection" /\ phase = "running" /\ last.op[1] = "event")
    => /\ (last.op[2] = "_on_box_selection_change" /\ last.op[3] # {})
          => /\ state["selected_indices"] = {vtkOriginalPointIds[s] : s \in last.op[3]}
             /\ shown["html_plot"].kind = "plotly"
             /\ shown["html_plot"].of.selectedpoints = state["selected_indices"]
       /\ last.op[2] = "_on_chart_selection"
          => /\ state["selected_indices"] = last.op[3]
             /\ self["pipeline"]["selection"] = [src |-> "full", ids |-> last.op[3]]
             /\ self["pipeline"]["selection_visibility"] = (last.op[3] # {})
             /\ shown["view"] = [kind |-> "render", of |-> self["pipeline"]]

\* No point was selected and the box selection hit the surface point 0: the
\* store holds its original id and the chart marks that point.
C18_Witness ==
    /\ app = "RemoteSelection" /\ phase = "running"
    /\ last.op = <<"event", "_on_box_selection_change", {0}>>
    /\ "selected_indices" \in last.changed
    /\ state["selected_indices"] = {NPoints - 1}
    /\ shown["html_plot"].of.selectedpoints = {NPoints - 1}
    /\ self["pipeline"]["selection"] = [src |-> "surface", ids |-> {0}]


(***************************************************************************)
(* C19 In MultiViewApp the cone resolution is a global control: every      *)
(* render window created in _initialize_vtk is bound to exactly one view   *)
(* widget, and each change of resolution (slider or reset button) sets the *)
(* shared cone source's resolution to int(resolution) and then calls       *)
(* update on every one of those views exactly once.                        *)
(***************************************************************************)
\* The number of calls of view.update on the view of render window rw that
\* the operation on record made.
UpdatesOf(rec, rw) ==
    Cardinality({i \in 1..Len(rec.calls) : rec.calls[i].h = ViewRef(rw)})

\* The operation on record gave resolution a new value that the slider or
\* the reset button produce: a number.
ResolutionChanged ==
    /\ "resolution" \in last.changed
    /\ \/ IsSetOf(last, "resolution") /\ CanInt(last.op[3])
       \/ last.op[1] = "event" /\ last.op[2] = "_reset_resolution"

C19_GlobalResolution ==
    (app = "MultiView" /\ phase \in {"built", "running"})
    => /\ \A rw \in self["render_windows"] :
            Cardinality({k \in 1..Len(self["_html_views"]) : self["_html_views"][k] = rw}) = 1
       /\ (phase = "running" /\ ResolutionChanged)
          => /\ self["pipeline"]["cone_resolution"] = IntOf(state["resolution"])
             /\ \A rw \in self["render_windows"] :
                  /\ UpdatesOf(last, rw) = 1
                  /\ shown[ViewRef(rw)] = [kind |-> "render", of |-> self["pipeline"]]

\* The slider went to 60: the cone source has 60 sides and each of the
\* twelve views was updated once and shows that cone.
C19_Witness ==
    /\ app = "MultiView" /\ phase = "running"
    /\ last.op = <<"set", "resolution", PyInt(60)>>
    /\ "resolution" \in last.changed
    /\ self["pipeline"]["cone_resolution"] = 60
    /\ Len(self["_html_views"]) = 12
    /\ UpdatesOf(last, 11) = 1
    /\ shown[ViewRef(11)] = [kind |-> "render", of |-> self["pipeline"]]


(***************************************************************************)
(* C20 The chart-selector change handlers run to completion for every      *)
(* selector value: update_chart (Altair) and _update_chart (Matplotlib)    *)
(* return after a bounded number of steps for any string value of the      *)
(* selector, strings that name other attributes or methods of the          *)
(* application object included, and the handler never re-enters itself.    *)
(***************************************************************************)
\* The calls of update_chart that update_chart itself made in the operation
\* on record.  (_update_chart of the Matplotlib example cannot be entered
\* without its argument: its call on itself is rejected before the body.)
ReEntries(rec) ==
    {i \in 1..Len(rec.calls) : rec.calls[i].by = "direct" /\ rec.calls[i].h = "update_chart"}

\* The client gave the selector of a chart example a string value.
SelectorSet ==
    /\ app \in {"Altair", "Matplotlib"} /\ phase = "running"
    /\ \/ app = "Altair" /\ IsSetOf(last, "active_chart")
       \/ app = "Matplotlib" /\ IsSetOf(last, "active_figure")
    /\ last.op[3] # NoneName

C20_SelectorHandlersReturn ==
    SelectorSet
    => /\ ReEntries(last) = {}
       /\ \A i \in 1..Len(last.calls) : ~last.calls[i].raised


(***************************************************************************)
(* C21 In the selector examples whose constructor calls the handler itself *)
(* after building the UI (Altair, Matplotlib, pydeck layers, Markdown),    *)
(* once the constructor has returned and before any user interaction the   *)
(* display widget or bound state entry holds the artifact of the initial   *)
(* selector value.  The Plotly constructor makes no such call: its figure  *)
(* widget holds nothing until the dispatch at server start delivers the    *)
(* initial plot.                                                           *)
(***************************************************************************)
\* The display of the running example holds the artifact of the selector
\* value in the store.
InitialArtifactShown ==
    CASE app = "Altair" ->
            /\ state["active_chart"] = "ScatterMatrix"
            /\ shown["altair_figure"] = [kind |-> "vega", of |-> state["active_chart"]]
      [] app = "Matplotlib" ->
            /\ state["active_figure"] = "FirstDemo"
            /\ shown["html_figure"].kind = "figure"
            /\ shown["html_figure"].of[1] = state["active_figure"]
      [] app = "Plotly" ->
            /\ state["active_plot_name"] = "Contour"
            /\ shown["plotly_display"] = [kind |-> "plotly", of |-> PLOTS["Contour"]]
      [] app = "MappingDemo" ->
            /\ state["activeLayers"] = LayerNames
            /\ shown["_deck_widget"] = [kind |-> "deck", of |-> ALL_LAYERS]
      [] app = "Markdown" ->
            /\ state["file_name"] = "demo.md"
            /\ state["md_content"] = IF env.source = "ok"
                                     THEN TextOf(current_script_path \o <<"demo.md">>)
                                     ELSE ErrorFor("demo.md")
      [] OTHER -> TRUE

\* The constructor has returned and the server has not started: no call so
\* far was made by the dispatcher.
ConstructorReturned ==
    /\ phase = "built"
    /\ \A i \in 1..Len(last.calls) : last.calls[i].by = "direct"

C21_SeededByExplicitCall ==
    /\ phase = "built" => ConstructorReturned
    /\ (phase = "built" /\ app # "Plotly") => InitialArtifactShown
    /\ (phase = "built" /\ app = "Plotly") => shown["plotly_display"] = Nothing
    /\ (phase = "running" /\ app = "Plotly" /\ last.op[1] = "serve")
       => /\ InitialArtifactShown
          /\ Len(Triggered(last, "active_plot_name")) = 1

\* The claim as stated, the Plotly example included.
C21_EverySelectorSeededExplicitly ==
    phase = "built" => (ConstructorReturned /\ InitialArtifactShown)

\* The Markdown viewer was constructed where demo.md is installed: the
\* bound entry holds the text of demo.md.
C21_Witness ==
    /\ app = "Markdown" /\ env.source = "ok" /\ phase = "built"
    /\ last.op[1] = "construct"
    /\ state["md_content"] = TextOf(<<"examples", "markdown", "demo.md">>)


(***************************************************************************)
(* C22 In UberPickupsApp the loading flag is true only while               *)
(* update_data_and_plots is running: after every invocation of the handler *)
(* has ended, by returning or by failing part-way, state.loading is false, *)
(* so the progress indicator is never left active while the application is *)
(* idle.                                                                   *)
(***************************************************************************)
C22_LoadingOnlyWhileRunning ==
    (app = "Uber" /\ phase \in {"built", "running"}) => state["loading"] = FALSE


(***************************************************************************)
(* C23 In MarkdownViewerApp, after any sequence of file_name changes,      *)
(* state.md_content is either the text of a file located directly in the   *)
(* script's directory and listed in file_options, or the '# Error' message *)
(* for the requested name; no file_name value (absolute path or one        *)
(* containing '..') makes md_content hold the content of a file outside    *)
(* the script's directory.                                                 *)
(***************************************************************************)
C23_ContentStaysInScriptDirectory ==
    (app = "Markdown" /\ phase \in {"built", "running"})
    => \/ \E f \in file_options : state["md_content"] = TextOf(current_script_path \o <<f>>)
       \/ \E name \in Inputs("Markdown")["file_name"] : state["md_content"] = ErrorFor(name)


(***************************************************************************)
(* C24 In the contour examples with an Interactive checkbox, after any     *)
(* sequence of contour_value changes, interactive_update toggles, slider   *)
(* end events and resets, whenever interactive_update is true and no       *)
(* handler invocation is pending, the contour filter's value equals        *)
(* state.contour_value (here: whenever that value is a number).            *)
(***************************************************************************)
C24_FilterFollowsStoreWhenInteractive ==
    (app \in {"ContourRemote", "ContourView"} /\ phase = "running"
        /\ state["interactive_update"] /\ CanFloat(state["contour_value"]))
    => self["pipeline"]["contour_value"] = FloatOf(state["contour_value"])



(***************************************************************************)
(* C25 In ContourViewApp (switchable Local/Remote views), after any        *)
(* interleaving of contour value changes, slider end events, resets and    *)
(* view-mode toggles, the view named by state.view_mode has received an    *)
(* update call at or after the most recent mutation of the contour filter, *)
(* so the active view is never stale; view_mode only ever holds 'Local' or *)
(* 'Remote', and a toggle updates only the newly activated view.           *)
(***************************************************************************)
\* The views of the local/remote example.
ContourViews == {"view.remote", "view.local"}

\* The active view shows the contour filter as it is now.
ActiveViewFresh ==
    /\ state["view_mode"] \in {"Local", "Remote"}
    /\ shown[ActiveView(state)] = [kind |-> "render", of |-> self["pipeline"]]

\* The step is the view-mode button of the running local/remote example.
ViewToggle ==
    /\ app = "ContourView" /\ phase = "running"
    /\ last'.op[1] = "event" /\ last'.op[2] = "_toggle_view_mode"

\* A toggle activates the other view, updates it and leaves the view it
\* deactivates, and the contour filter, as they were.
ToggleUpdatesNewViewOnly ==
    ViewToggle =>
        /\ state'["view_mode"] # state["view_mode"]
        /\ self' = self
        /\ \A w \in ContourViews \ {ActiveView(state')} : shown'[w] = shown[w]

C25_ActiveViewNeverStale ==
    /\ []((app = "ContourView" /\ phase \in {"built", "running"}) => ActiveViewFresh)
    /\ [][ToggleUpdatesNewViewOnly]_vars

\* The contour was moved to 25 while the remote view was active; the button
\* then activated the local view, which shows the contour at 25, while the
\* remote view keeps what it showed.
C25_Witness ==
    /\ app = "ContourView" /\ phase = "running"
    /\ last.op[1] = "event" /\ last.op[2] = "_toggle_view_mode"
    /\ state["view_mode"] = "Local"
    /\ self["pipeline"]["contour_value"] = 50
    /\ shown["view.local"] = [kind |-> "render", of |-> self["pipeline"]]
    /\ shown["view.remote"] = [kind |-> "render", of |-> self["pipeline"]]



(***************************************************************************)
(* C26 In RemoteSelectionApp, after every box_selection_change event has   *)
(* been handled, whether or not the selection pass hit anything, the main  *)
(* actor's opacity is back at 0.5 (the value it has outside a selection    *)
(* pass) and state.vtk_selection is false.                                 *)
(***************************************************************************)
C26_OpacityRestoredAfterSelection ==
    (app = "RemoteSelection" /\ phase = "running"
        /\ last.op[1] = "event" /\ last.op[2] = "_on_box_selection_change")
    => /\ self["pipeline"]["actor_opacity"] = 5
       /\ state["vtk_selection"] = FALSE

====
